---- MODULE Spec2Model ----
(***************************************************************************)
(* State-machine model of the CHIP-8 interpreter core: the return-address  *)
(* stack of the RAM, the program counter of the CPU, and the blocking-key  *)
(* handshake between the CPU thread and the input manager.                 *)
(***************************************************************************)
EXTENDS Integers, Sequences, FiniteSets, TLC

(* ---------------------------- bounds ----------------------------------- *)
\* config.stack_size of the modelled machine (the code accepts any size > 0)
StackSize == 2
\* values pushed through the bare stack interface are drawn from 1..MaxVal
MaxVal == 3
\* CPU::run is followed for at most MaxTicks iterations
MaxTicks == 4

\* the user presses and releases the keys 0..HostKeys-1
HostKeys == 2
\* heap calls move at most MaxLen bytes
MaxLen == 3

(* ------------------------- program constants --------------------------- *)
PROGRAM_START_ADDRESS == 512
HEAP_SIZE == 4096
NUMBER_OF_INPUTS == 16

VARIABLES
    config,            \* the policy switches of RAMConfig and CPUConfig
    debug_assertions,  \* cfg!(debug_assertions) of the build
    active,            \* the shared shutdown flag
    stack,             \* RAM.stack, slots 0..stack_size-1
    stack_ptr,         \* RAM.stack_ptr
    call,              \* history: the last stack call, its pre-state and result
    pushlog,           \* history: the last <= StackSize values of the current run of pushes
    poplog,            \* history: the values returned by the pops that followed that run
    run_n,             \* history: number of pushes in the current run, capped at StackSize+1
    run_sp,            \* history: stack_ptr before the first push of the current run
    run_active,        \* history: active before the first push of the current run
    pc,                \* CPU.pc
    v,                 \* CPU.v, registers 0..15
    cpu_at,            \* where the CPU thread is inside CPU::run
    ticks,             \* number of loop iterations CPU::run has started
    last,              \* history: what the last iteration of CPU::run did
    key_states,        \* InputManager.key_states
    newest_key_state,  \* InputManager.newest_key_state, the handshake
    newest_key,        \* InputManager.newest_key, the slot
    fx,                \* the register operand of the Fx0A the CPU is parked in
    host_keys,         \* environment: the keys the user holds down
    host_at,           \* where the host event loop is
    delay_at,          \* where the delay timer thread is
    sound_at,          \* where the sound timer thread is
    render_at,         \* where the separate render thread is
    hs,                \* history: key events delivered since the last request
    heap,              \* RAM.heap: the bytes that are not zero, by address
    mem,               \* history: the last heap call, its pre-state and result
    index,             \* CPU.index, the register I
    quirks,            \* the switches of CPUConfig read by the instruction handlers
    gpu_config,        \* GPUConfig: resolution and the two wrap switches
    framebuffer,       \* GPU.framebuffer: the indices of the pixels that are on
    draw,              \* history: the last draw_sprite call, its pre-state and result
    alu,               \* history: the last 8xyN instruction and the registers before it
    delay_timer,       \* DelayTimer.value
    sound_timer,       \* SoundTimer.value
    sink,              \* SoundTimer.sink: "paused" or "playing"
    tm,                \* history: the last value stored in each timer and its ticks since
    main_at,           \* where the main thread is inside main
    exit_code,         \* the exit status of the process, or "none" while it runs
    startup,           \* history: how create_components and load_program ended
    render_queued,     \* GPU.render_queued
    present,           \* the host's presenter: its position and what it last showed
    limiter,           \* the Limiter of the CPU's run loop, with the clock it reads
    locks,             \* the mutexes each thread holds and the one it waits for
    ins                \* history: the last instruction executed and the state before it

stackHist == <<call, pushlog, poplog, run_n, run_sp, run_active>>
cpuVars == <<pc, v, cpu_at, ticks, last>>
keyVars == <<key_states, newest_key_state, newest_key, fx, host_keys, hs>>
agentVars == <<host_at, delay_at, sound_at, render_at>>
memVars == <<heap, mem, index, quirks>>
gpuVars == <<gpu_config, framebuffer, draw>>
timerVars == <<delay_timer, sound_timer, sink, tm>>
mainVars == <<main_at, exit_code, startup>>
syncVars == <<render_queued, present, limiter, locks>>

vars == <<config, debug_assertions, active, stack, stack_ptr,
          call, pushlog, poplog, run_n, run_sp, run_active,
          pc, v, cpu_at, ticks, last,
          key_states, newest_key_state, newest_key, fx, host_keys,
          host_at, delay_at, sound_at, render_at, hs, heap, mem, index, quirks,
          gpu_config, framebuffer, draw, alu,
          delay_timer, sound_timer, sink, tm, main_at, exit_code, startup,
          render_queued, present, limiter, locks, ins>>

Slots == 0..(StackSize - 1)
PushVals == 1..MaxVal
NoSlot == -1
NoCall == [op |-> "none", arg |-> 0, ok |-> TRUE, ret |-> 0, slot |-> NoSlot,
           pre_ptr |-> 0, pre_stack |-> [i \in Slots |-> 0], pre_active |-> TRUE]

Configs == [allow_stack_overflow : BOOLEAN,
            allow_heap_overflow : BOOLEAN,
            allow_program_counter_overflow : BOOLEAN,
            use_new_jump_instruction : BOOLEAN]

Regs == 0..15
Keys == 0..(NUMBER_OF_INPUTS - 1)
\* the keys the user touches
HostKeySet == 0..(HostKeys - 1)
NoKey == -1
\* phase: "idle" (no request yet), "open" (request made, Fx0A not back) or
\* "closed" (Fx0A back); script: "none", "pressed" (one batch, holding only
\* the press of key first), "released" (then one batch holding only the
\* release of that key) or "dirty" (anything else); pressed: keys with a
\* press delivered since the request; cycled: keys with a release delivered
\* after such a press; press_req: a press was delivered while the handshake
\* was Requested; rel_held: a release was delivered while it was Held;
\* ret: how Fx0A came back ("key" with active true, else "shutdown"); key:
\* what it returned
NoHistory == [phase |-> "idle", script |-> "none", first |-> NoKey,
              pressed |-> {}, cycled |-> {}, press_req |-> FALSE,
              rel_held |-> FALSE, ret |-> "no", key |-> NoKey]
\* a heap whose bytes are all zero
NoBytes == [a \in {} |-> 0]
NoMem == [op |-> "none", addr |-> 0, vals |-> <<>>, count |-> 0, result |-> "ok",
          bytes |-> <<>>, pre_heap |-> NoBytes, pre_active |-> TRUE]
\* reset_flag_for_bitwise_operations and limit_to_one_draw_per_frame are keys
\* of the configuration file that no field of CPUConfig takes up and no
\* handler reads
Quirks == [allow_index_register_overflow : BOOLEAN,
           set_flag_for_index_overflow : BOOLEAN,
           move_index_with_reads : BOOLEAN,
           use_new_shift_instruction : BOOLEAN,
           reset_flag_for_bitwise_operations : BOOLEAN,
           limit_to_one_draw_per_frame : BOOLEAN]
NoQuirks == [allow_index_register_overflow |-> FALSE,
             set_flag_for_index_overflow |-> FALSE,
             move_index_with_reads |-> FALSE,
             use_new_shift_instruction |-> FALSE,
             reset_flag_for_bitwise_operations |-> FALSE,
             limit_to_one_draw_per_frame |-> FALSE]
\* components: how create_components ended; program: how load_program ended;
\* event_loop: how EventLoop::new and run_app ended
StartedUp == [components |-> "ok", program |-> "ok", event_loop |-> "ok"]
NotStartedUp == [components |-> "pending", program |-> "pending", event_loop |-> "pending"]
\* at: "idle", "dequeue" once about_to_wait has read the flag as true,
\* "redraw" once a redraw is requested and not yet rendered;
\* changes: the framebuffer changes the CPU has completed; seen: the number of
\* them the last render has read
NoPresent == [at |-> "idle", changes |-> 0, seen |-> 0]
\* delay, target: the fields of Limiter; now: the clock; at: "wait" before
\* wait_if_early, "execute" after it; origin: the instant of the limiter's
\* creation or last reset; returns: the returns of wait_if_early since then;
\* returned_at: the instant of the last of them; first_slept: the first of
\* them had to sleep; overflowed: a checked_add has returned None since then
NoLimiter == [delay |-> 1, target |-> 0, now |-> 0, at |-> "wait", origin |-> 0,
              returns |-> 0, returned_at |-> 0, first_slept |-> FALSE,
              overflowed |-> FALSE]
\* a thread between two operations: fn is the operation it is in, held the
\* mutexes it holds in the order it took them, todo the lock and unlock
\* steps the operation still has to make
IdleThread == [fn |-> "none", held |-> <<>>, todo |-> <<>>]
NoLocks == [cpu |-> IdleThread, host |-> IdleThread]
\* sound_ended: a tick of the sound timer has ended; sound_read: the value
\* its second half loaded
\* delay_loaded, sound_loaded: the value the running fetch_update has loaded;
\* delay_raced, sound_raced: a fetch_update has found the register changed
\* and started over
NoTimerHistory == [delay_set |-> 0, delay_ticks |-> 0, sound_set |-> 0, sound_ticks |-> 0,
                   sound_ended |-> FALSE, sound_read |-> 0,
                   delay_loaded |-> 0, sound_loaded |-> 0,
                   delay_raced |-> FALSE, sound_raced |-> FALSE]
\* fn, op: the handler and its opcode; pc, v, index, heap, stack, stack_ptr,
\* active, key_states: the state before the opcode was fetched; before: the same record
\* of the instruction executed before this one, without its own before;
\* calls: the addresses of the CALLs executed and not yet returned from, the
\* oldest first, kept until the stack pointer wraps; wrapped: it has wrapped
NoInsBefore == [fn |-> "none", op |-> 0, pc |-> 0, v |-> [r \in Regs |-> 0], index |-> 0,
                heap |-> NoBytes, stack |-> [i \in Slots |-> 0], stack_ptr |-> 0,
                active |-> TRUE,
                key_states |-> [k \in Keys |-> FALSE]]
NoIns == [fn |-> "none", op |-> 0, pc |-> 0, v |-> [r \in Regs |-> 0], index |-> 0,
          heap |-> NoBytes, stack |-> [i \in Slots |-> 0], stack_ptr |-> 0,
          active |-> TRUE, key_states |-> [k \in Keys |-> FALSE],
          before |-> NoInsBefore, calls |-> <<>>, wrapped |-> FALSE]
NoAlu == [fn |-> "none", x |-> 0, y |-> 0, pre_v |-> [r \in Regs |-> 0]]
\* GPU::new_default_no_wrapping
DefaultGpuConfig == [horizontal_resolution |-> 64, vertical_resolution |-> 32,
                     wrap_sprite_positions |-> FALSE, wrap_sprite_pixels |-> FALSE,
                     render_occasion |-> "Changes"]
NoDraw == [n |-> 0, sprite |-> <<>>, x_pos |-> 0, y_pos |-> 0, pre |-> {},
           collided |-> FALSE, drawn |-> FALSE, queued_before |-> FALSE,
           blocked |-> FALSE]
NoSkip == [called |-> FALSE, from |-> 0, ok |-> TRUE]
\* kind: "fetch_fail", "tick" (an opcode was fetched) or "key" (Fx0A returned);
\* fetch_pc, pre_active: pc and active before the fetch; read: how the fetch's
\* read ended; mid_pc, mid_active: pc and active after the fetch; skip: the
\* call of increment_pc the handler made
NoLast == [kind |-> "none", fetch_pc |-> 0, read |-> "none", pre_active |-> TRUE,
           mid_pc |-> 0, mid_active |-> TRUE, skip |-> NoSkip]

(* ------------------------------ RAM stack ------------------------------ *)
\* push_to_stack without the test for a full stack
push_to_stack_unchecked(s, p, val) ==
    [ok |-> TRUE, stack |-> [i \in DOMAIN s |-> IF i = p THEN val ELSE s[i]],
     stack_ptr |-> p + 1, slot |-> p, halt |-> FALSE]

\* push_to_stack whose wrap-around leaves the pointer at 0
push_to_stack_wrap_to_zero(s, p, val) ==
    IF p = StackSize
    THEN IF ~config.allow_stack_overflow
         THEN [ok |-> FALSE, stack |-> s, stack_ptr |-> p, slot |-> NoSlot, halt |-> TRUE]
         ELSE [ok |-> TRUE, stack |-> [s EXCEPT ![0] = val], stack_ptr |-> 0,
               slot |-> 0, halt |-> FALSE]
    ELSE [ok |-> TRUE, stack |-> [s EXCEPT ![p] = val], stack_ptr |-> p + 1,
          slot |-> p, halt |-> FALSE]

\* RAM::push_to_stack on the stack state (s, p): the new slots and pointer,
\* the returned flag, the slot index written and whether active was cleared.
push_to_stack(s, p, val) ==
    IF p = StackSize
    THEN IF ~config.allow_stack_overflow
         THEN [ok |-> FALSE, stack |-> s, stack_ptr |-> p, slot |-> NoSlot, halt |-> TRUE]
         ELSE [ok |-> TRUE, stack |-> [s EXCEPT ![0] = val], stack_ptr |-> 1,
               slot |-> 0, halt |-> FALSE]
    ELSE [ok |-> TRUE, stack |-> [s EXCEPT ![p] = val], stack_ptr |-> p + 1,
          slot |-> p, halt |-> FALSE]

\* pop_from_stack whose failure does not clear active
pop_from_stack_no_halt(s, p) ==
    IF p = 0
    THEN IF ~config.allow_stack_overflow
         THEN [ok |-> FALSE, ret |-> 0, stack_ptr |-> p, slot |-> NoSlot, halt |-> FALSE]
         ELSE [ok |-> TRUE, ret |-> IF (StackSize - 1) \in DOMAIN s THEN s[StackSize - 1] ELSE 0,
               stack_ptr |-> StackSize - 1, slot |-> StackSize - 1, halt |-> FALSE]
    ELSE [ok |-> TRUE, ret |-> IF (p - 1) \in DOMAIN s THEN s[p - 1] ELSE 0,
          stack_ptr |-> p - 1, slot |-> p - 1, halt |-> FALSE]

\* pop_from_stack that reads the slot before it moves the pointer
pop_from_stack_read_first(s, p) ==
    IF p = 0
    THEN IF ~config.allow_stack_overflow
         THEN [ok |-> FALSE, ret |-> 0, stack_ptr |-> p, slot |-> NoSlot, halt |-> TRUE]
         ELSE [ok |-> TRUE, ret |-> IF (StackSize - 1) \in DOMAIN s THEN s[StackSize - 1] ELSE 0,
               stack_ptr |-> StackSize - 1, slot |-> StackSize - 1, halt |-> FALSE]
    ELSE [ok |-> TRUE, ret |-> IF p \in DOMAIN s THEN s[p] ELSE s[0],
          stack_ptr |-> p - 1, slot |-> p - 1, halt |-> FALSE]

\* RAM::pop_from_stack on the stack state (s, p): the returned value (ok =
\* FALSE stands for None), the new pointer, the slot index read.
pop_from_stack(s, p) ==
    IF p = 0
    THEN IF ~config.allow_stack_overflow
         THEN [ok |-> FALSE, ret |-> 0, stack_ptr |-> p, slot |-> NoSlot, halt |-> TRUE]
         ELSE [ok |-> TRUE, ret |-> IF (StackSize - 1) \in DOMAIN s THEN s[StackSize - 1] ELSE 0,
               stack_ptr |-> StackSize - 1, slot |-> StackSize - 1, halt |-> FALSE]
    ELSE [ok |-> TRUE, ret |-> IF (p - 1) \in DOMAIN s THEN s[p - 1] ELSE 0,
          stack_ptr |-> p - 1, slot |-> p - 1, halt |-> FALSE]

\* the last n elements of a sequence
LastN(q, n) == IF Len(q) <= n THEN q ELSE SubSeq(q, Len(q) - n + 1, Len(q))

Min(a, b) == IF a < b THEN a ELSE b

\* RAM::try_new followed by nothing else: zeroed slots, pointer 0
InitStack ==
    /\ config \in {c \in Configs : ~c.allow_heap_overflow
                                   /\ ~c.allow_program_counter_overflow
                                   /\ ~c.use_new_jump_instruction}
    /\ debug_assertions = FALSE
    /\ active = TRUE
    /\ stack = [i \in Slots |-> 0]
    /\ stack_ptr = 0
    /\ call = NoCall
    /\ pushlog = <<>>
    /\ poplog = <<>>
    /\ run_n = 0
    /\ run_sp = 0
    /\ run_active = TRUE
    /\ pc = PROGRAM_START_ADDRESS
    /\ v = [r \in Regs |-> 0]
    /\ cpu_at = "idle"
    /\ ticks = 0
    /\ last = NoLast
    /\ key_states = [k \in Keys |-> FALSE]
    /\ newest_key_state = "Finished"
    /\ newest_key = 0
    /\ fx = 0
    /\ host_keys = {}
    /\ host_at = "idle"
    /\ delay_at = "idle"
    /\ sound_at = "idle"
    /\ render_at = "idle"
    /\ hs = NoHistory
    /\ heap = NoBytes
    /\ mem = NoMem
    /\ index = 0
    /\ quirks = NoQuirks
    /\ gpu_config = DefaultGpuConfig
    /\ framebuffer = {}
    /\ draw = NoDraw
    /\ alu = NoAlu
    /\ delay_timer = 0
    /\ sound_timer = 0
    /\ sink = "paused"
    /\ tm = NoTimerHistory
    /\ main_at = "run_app"
    /\ exit_code = "none"
    /\ startup = StartedUp
    /\ render_queued = FALSE
    /\ present = NoPresent
    /\ limiter = NoLimiter
    /\ locks = NoLocks
    /\ ins = NoIns

\* a caller invokes ram.push_to_stack(val)
Push(val) ==
    LET r == push_to_stack(stack, stack_ptr, val)
        fresh == poplog # <<>> \/ run_n = 0
    IN /\ stack' = r.stack
       /\ stack_ptr' = r.stack_ptr
       /\ active' = IF r.halt THEN FALSE ELSE active
       /\ call' = [op |-> "push", arg |-> val, ok |-> r.ok, ret |-> 0, slot |-> r.slot,
                   pre_ptr |-> stack_ptr, pre_stack |-> stack, pre_active |-> active]
       /\ IF ~r.ok
          THEN pushlog' = <<>> /\ poplog' = <<>> /\ run_n' = 0 /\ run_sp' = 0
               /\ run_active' = TRUE
          ELSE /\ run_active' = IF fresh THEN active ELSE run_active
               /\ pushlog' = IF fresh THEN <<val>> ELSE LastN(Append(pushlog, val), StackSize)
               /\ poplog' = <<>>
               /\ run_n' = IF fresh THEN 1 ELSE Min(run_n + 1, StackSize + 1)
               /\ run_sp' = IF fresh THEN stack_ptr ELSE run_sp
       /\ UNCHANGED <<config, debug_assertions, gpuVars, alu, timerVars, mainVars, syncVars, ins, memVars, cpuVars, keyVars, agentVars>>

\* a caller invokes ram.pop_from_stack()
Pop ==
    LET r == pop_from_stack(stack, stack_ptr)
    IN /\ stack' = stack
       /\ stack_ptr' = r.stack_ptr
       /\ active' = IF r.halt THEN FALSE ELSE active
       /\ call' = [op |-> "pop", arg |-> 0, ok |-> r.ok, ret |-> r.ret, slot |-> r.slot,
                   pre_ptr |-> stack_ptr, pre_stack |-> stack, pre_active |-> active]
       /\ IF ~r.ok
          THEN pushlog' = <<>> /\ poplog' = <<>> /\ run_n' = 0 /\ run_sp' = 0
               /\ run_active' = TRUE
          ELSE /\ poplog' = IF Len(poplog) <= StackSize THEN Append(poplog, r.ret) ELSE poplog
               /\ UNCHANGED <<pushlog, run_n, run_sp, run_active>>
       /\ UNCHANGED <<config, debug_assertions, gpuVars, alu, timerVars, mainVars, syncVars, ins, memVars, cpuVars, keyVars, agentVars>>

NextStack ==
    \/ \E val \in PushVals : Push(val)
    \/ Pop

SpecStack == InitStack /\ [][NextStack]_vars

(* ------------------------- stack: claims C5..C8 ------------------------ *)
\* C5: after any sequence of pushes and pops, under either overflow policy,
\* the stack pointer is in 0..stack_size and every slot that a push wrote or
\* a pop read has an index in 0..stack_size-1.
C5_StackPointerInRange ==
    /\ stack_ptr \in 0..StackSize
    /\ call.slot # NoSlot => call.slot \in Slots
    /\ (call.op # "none" /\ call.ok) => call.slot \in Slots

C5_Witness ==
    /\ call.op = "pop" /\ call.pre_ptr = 0 /\ call.ok
    /\ call.slot = StackSize - 1
    /\ stack_ptr = StackSize - 1

\* C6: with allow_stack_overflow = false a push on a full stack and a pop on
\* an empty one fail, clear active and leave slots and pointer as they were;
\* every other push and pop succeeds and does not touch active.
C6_FailStop ==
    ~config.allow_stack_overflow =>
        /\ (call.op = "push" /\ call.pre_ptr = StackSize) =>
              (~call.ok /\ ~active /\ stack = call.pre_stack /\ stack_ptr = call.pre_ptr)
        /\ (call.op = "pop" /\ call.pre_ptr = 0) =>
              (~call.ok /\ ~active /\ stack = call.pre_stack /\ stack_ptr = call.pre_ptr)
        /\ (call.op = "push" /\ call.pre_ptr < StackSize) =>
              (call.ok /\ active = call.pre_active)
        /\ (call.op = "pop" /\ call.pre_ptr > 0) =>
              (call.ok /\ active = call.pre_active)

C6_Witness ==
    /\ ~config.allow_stack_overflow
    /\ call.op = "push" /\ call.pre_ptr = StackSize /\ call.pre_active
    /\ ~call.ok /\ ~active

\* C7: with allow_stack_overflow = true a push on a full stack writes slot 0
\* and sets the pointer to 1, a pop on an empty stack returns slot
\* stack_size-1 and sets the pointer to stack_size-1; after n >= stack_size
\* consecutive pushes the next stack_size pops return the last stack_size
\* pushed values, most recent first, the pop after those returns the most
\* recent value again, and active stays true.
C7_OverflowRing ==
    config.allow_stack_overflow =>
        /\ (call.op = "push" /\ call.pre_ptr = StackSize) =>
              /\ call.ok /\ call.slot = 0
              /\ stack = [call.pre_stack EXCEPT ![0] = call.arg]
              /\ stack_ptr = 1
        /\ (call.op = "pop" /\ call.pre_ptr = 0) =>
              /\ call.ok /\ call.ret = call.pre_stack[StackSize - 1]
              /\ stack = call.pre_stack
              /\ stack_ptr = StackSize - 1
        /\ run_n >= StackSize =>
              \A i \in 1..Len(poplog) :
                  poplog[i] = IF i <= StackSize
                              THEN pushlog[Len(pushlog) + 1 - i]
                              ELSE pushlog[Len(pushlog)]
        /\ active

C7_Witness ==
    /\ config.allow_stack_overflow
    /\ run_n > StackSize
    /\ Len(poplog) = StackSize + 1
    /\ \A i, j \in 1..Len(pushlog) : i # j => pushlog[i] # pushlog[j]

\* C8: from a stack with k free slots, m <= k pushes followed by m pops
\* return the pushed values in reverse order, put the pointer back where it
\* was before the pushes, and do not clear active.
C8_PushPopLifo ==
    (run_n >= 1 /\ run_sp + run_n <= StackSize /\ Len(poplog) <= run_n) =>
        /\ \A i \in 1..Len(poplog) : poplog[i] = pushlog[Len(pushlog) + 1 - i]
        /\ Len(poplog) = run_n => stack_ptr = run_sp
        /\ active = run_active

C8_Witness ==
    /\ run_n = StackSize /\ run_sp = 0 /\ run_active
    /\ Len(poplog) = run_n
    /\ \A i, j \in 1..Len(pushlog) : i # j => pushlog[i] # pushlog[j]

(* ------------------------------- opcodes ------------------------------- *)
\* Opcode::from_u8s and the field accessors of Opcode
from_u8s(high, low) == high * 256 + low
get_addr(op) == op % 4096
get_kk(op) == op % 256
get_s(op) == op \div 4096
get_x(op) == (op % 4096) \div 256
get_y(op) == (op % 256) \div 16
get_n(op) == op % 16

\* instructions::get_instruction_function: the handler selected for an
\* opcode, "none" where the match yields None
get_instruction_function(op) ==
    CASE get_s(op) = 0 ->
            (CASE get_addr(op) = 224 -> "i_00E0_CLS"
               [] get_addr(op) = 238 -> "i_00EE_RET"
               [] OTHER -> "none")
      [] get_s(op) = 1 -> "i_1nnn_JP_addr"
      [] get_s(op) = 2 -> "i_2nnn_CALL_addr"
      [] get_s(op) = 3 -> "i_3xkk_SE_Vx_byte"
      [] get_s(op) = 4 -> "i_4xkk_SNE_Vx_byte"
      [] get_s(op) = 5 -> (IF get_n(op) = 0 THEN "i_5xy0_SE_Vx_Vy" ELSE "none")
      [] get_s(op) = 6 -> "i_6xkk_LD_Vx_byte"
      [] get_s(op) = 7 -> "i_7xkk_ADD_Vx_byte"
      [] get_s(op) = 8 ->
            (CASE get_n(op) = 0 -> "i_8xy0_LD_Vx_Vy"
               [] get_n(op) = 1 -> "i_8xy1_OR_Vx_Vy"
               [] get_n(op) = 2 -> "i_8xy2_AND_Vx_Vy"
               [] get_n(op) = 3 -> "i_8xy3_XOR_Vx_Vy"
               [] get_n(op) = 4 -> "i_8xy4_ADD_Vx_Vy"
               [] get_n(op) = 5 -> "i_8xy5_SUB_Vx_Vy"
               [] get_n(op) = 6 -> "i_8xy6_SHR_Vx"
               [] get_n(op) = 7 -> "i_8xy7_SUBN_Vx_Vy"
               [] get_n(op) = 14 -> "i_8xyE_SHL_Vx"
               [] OTHER -> "none")
      [] get_s(op) = 9 -> (IF get_n(op) = 0 THEN "i_9xy0_SNE_Vx_Vy" ELSE "none")
      [] get_s(op) = 10 -> "i_Annn_LD_I_addr"
      [] get_s(op) = 11 -> "i_Bnnn_JP_V0_addr"
      [] get_s(op) = 12 -> "i_Cxkk_RND_Vx_byte"
      [] get_s(op) = 13 -> "i_Dxyn_DRW_Vx_Vy_nibble"
      [] get_s(op) = 14 ->
            (CASE get_kk(op) = 158 -> "i_Ex9E_SKP_Vx"
               [] get_kk(op) = 161 -> "i_ExA1_SKNP_Vx"
               [] OTHER -> "none")
      [] get_s(op) = 15 ->
            (CASE get_kk(op) = 7 -> "i_Fx07_LD_Vx_DT"
               [] get_kk(op) = 10 -> "i_Fx0A_LD_Vx_K"
               [] get_kk(op) = 21 -> "i_Fx15_LD_DT_Vx"
               [] get_kk(op) = 24 -> "i_Fx18_LD_ST_Vx"
               [] get_kk(op) = 30 -> "i_Fx1E_ADD_I_Vx"
               [] get_kk(op) = 41 -> "i_Fx29_LD_F_Vx"
               [] get_kk(op) = 51 -> "i_Fx33_LD_B_Vx"
               [] get_kk(op) = 85 -> "i_Fx55_LD_I_Vx"
               [] get_kk(op) = 101 -> "i_Fx65_LD_Vx_I"
               [] OTHER -> "none")

(* --------------------------------- CPU --------------------------------- *)
\* The machine as one instruction sees it.  fault = "panic" records that the
\* CPU thread unwound (a panic!, or an index or arithmetic check of the
\* build); skip records a call of increment_pc made by the handler.
Machine == [pc |-> pc, v |-> v, stack |-> stack, stack_ptr |-> stack_ptr,
            active |-> active, fault |-> "none", skip |-> NoSkip,
            index |-> index, heap |-> heap, mem |-> mem,
            delay_timer |-> delay_timer, sound_timer |-> sound_timer]

\* how RAM::read_bytes(addr, count) ends: "ok" (Some), "fail" (None, active
\* cleared), or "panic": with wrap allowed and addr > HEAP_SIZE the
\* subtraction HEAP_SIZE - addr overflows (checked builds) or the slice
\* heap[addr..] starts past the end (unchecked builds).
read_bytes_outcome(addr, count) ==
    IF addr + count > HEAP_SIZE
    THEN IF ~config.allow_heap_overflow
         THEN "fail"
         ELSE IF addr > HEAP_SIZE THEN "panic" ELSE "ok"
    ELSE "ok"

\* CPU::set_pc
set_pc(m, value) ==
    IF debug_assertions /\ value > 4095
    THEN [m EXCEPT !.fault = "panic"]
    ELSE [m EXCEPT !.pc = value]

\* increment_pc with the reduction mod 0x1000 left out
increment_pc_nowrap(m) ==
    IF m.pc >= 4094 /\ ~config.allow_program_counter_overflow
    THEN [m EXCEPT !.active = FALSE,
                   !.skip = [called |-> TRUE, from |-> m.pc, ok |-> FALSE]]
    ELSE [m EXCEPT !.pc = m.pc + 2,
                   !.skip = [called |-> TRUE, from |-> m.pc, ok |-> TRUE]]

\* increment_pc whose failure does not clear active
increment_pc_no_halt(m) ==
    IF m.pc >= 4094 /\ ~config.allow_program_counter_overflow
    THEN [m EXCEPT !.skip = [called |-> TRUE, from |-> m.pc, ok |-> FALSE]]
    ELSE [m EXCEPT !.pc = (m.pc + 2) % 4096,
                   !.skip = [called |-> TRUE, from |-> m.pc, ok |-> TRUE]]

\* CPU::increment_pc; the returned flag is kept in skip.ok
increment_pc(m) ==
    IF m.pc >= 4094 /\ ~config.allow_program_counter_overflow
    THEN [m EXCEPT !.active = FALSE,
                   !.skip = [called |-> TRUE, from |-> m.pc, ok |-> FALSE]]
    ELSE [m EXCEPT !.pc = (m.pc + 2) % 4096,
                   !.skip = [called |-> TRUE, from |-> m.pc, ok |-> TRUE]]

\* CPU::fetch_instruction without the opcode it returns: ok = FALSE stands
\* for None, read is the outcome of the two-byte read ("none" when the
\* overflow check returned before reading).
fetch_instruction(m) ==
    IF m.pc >= 4094 /\ ~config.allow_program_counter_overflow
    THEN [ok |-> FALSE, read |-> "none", m |-> [m EXCEPT !.active = FALSE]]
    ELSE LET r == read_bytes_outcome(m.pc, 2)
         IN CASE r = "fail" -> [ok |-> FALSE, read |-> r, m |-> [m EXCEPT !.active = FALSE]]
              [] r = "panic" -> [ok |-> FALSE, read |-> r, m |-> [m EXCEPT !.fault = "panic"]]
              [] OTHER -> [ok |-> TRUE, read |-> r, m |-> [m EXCEPT !.pc = (m.pc + 2) % 4096]]

i_00EE_RET(m, op) ==
    LET r == pop_from_stack(m.stack, m.stack_ptr)
        m1 == [m EXCEPT !.stack_ptr = r.stack_ptr,
                        !.active = IF r.halt THEN FALSE ELSE m.active]
    IN IF ~r.ok THEN m1 ELSE set_pc(m1, r.ret)

i_1nnn_JP_addr(m, op) == set_pc(m, get_addr(op))

\* 2nnn that pushes the address of the CALL itself
i_2nnn_CALL_addr_pushes_own_address(m, op) ==
    LET r == push_to_stack(m.stack, m.stack_ptr, (m.pc + 4094) % 4096)
    IN [m EXCEPT !.stack = r.stack, !.stack_ptr = r.stack_ptr,
                 !.active = IF r.halt THEN FALSE ELSE m.active,
                 !.pc = get_addr(op)]

\* the flag returned by push_to_stack is not looked at
i_2nnn_CALL_addr(m, op) ==
    LET r == push_to_stack(m.stack, m.stack_ptr, m.pc)
    IN [m EXCEPT !.stack = r.stack, !.stack_ptr = r.stack_ptr,
                 !.active = IF r.halt THEN FALSE ELSE m.active,
                 !.pc = get_addr(op)]

i_3xkk_SE_Vx_byte(m, op) ==
    IF m.v[get_x(op)] = get_kk(op) THEN increment_pc(m) ELSE m

i_4xkk_SNE_Vx_byte(m, op) ==
    IF m.v[get_x(op)] # get_kk(op) THEN increment_pc(m) ELSE m

i_5xy0_SE_Vx_Vy(m, op) ==
    IF m.v[get_x(op)] = m.v[get_y(op)] THEN increment_pc(m) ELSE m

i_6xkk_LD_Vx_byte(m, op) == [m EXCEPT !.v[get_x(op)] = get_kk(op)]

i_9xy0_SNE_Vx_Vy(m, op) ==
    IF m.v[get_x(op)] # m.v[get_y(op)] THEN increment_pc(m) ELSE m

i_Bnnn_JP_V0_addr(m, op) ==
    set_pc(m, IF config.use_new_jump_instruction
              THEN m.v[get_x(op)] + get_addr(op)
              ELSE m.v[0] + get_addr(op))

\* CPU::execute_instruction for the handlers that do not block
execute_instruction(fn, m, op) ==
    CASE fn = "i_00EE_RET" -> i_00EE_RET(m, op)
      [] fn = "i_1nnn_JP_addr" -> i_1nnn_JP_addr(m, op)
      [] fn = "i_2nnn_CALL_addr" -> i_2nnn_CALL_addr(m, op)
      [] fn = "i_3xkk_SE_Vx_byte" -> i_3xkk_SE_Vx_byte(m, op)
      [] fn = "i_4xkk_SNE_Vx_byte" -> i_4xkk_SNE_Vx_byte(m, op)
      [] fn = "i_5xy0_SE_Vx_Vy" -> i_5xy0_SE_Vx_Vy(m, op)
      [] fn = "i_6xkk_LD_Vx_byte" -> i_6xkk_LD_Vx_byte(m, op)
      [] fn = "i_9xy0_SNE_Vx_Vy" -> i_9xy0_SNE_Vx_Vy(m, op)
      [] fn = "i_Bnnn_JP_V0_addr" -> i_Bnnn_JP_V0_addr(m, op)

\* the machine after an iteration is written back to the shared state
Commit(m) ==
    /\ pc' = m.pc
    /\ v' = m.v
    /\ stack' = m.stack
    /\ stack_ptr' = m.stack_ptr
    /\ active' = m.active

\* the opcodes a program image may hold at the fetched address
TargetAddrs == {4092, 4094, 4095}
ProgramWords ==
    {0, 238}                                   \* 0000 (no handler), 00EE
    \cup {4096 + a : a \in TargetAddrs}          \* 1nnn
    \cup {8192 + a : a \in TargetAddrs}          \* 2nnn
    \cup {12288, 16384, 20496, 36880}            \* 3000 4000 5010 9010
    \cup {24831, 49151}                          \* 60FF BFFF

\* CPU::run, the loop condition: leave when active is false
CpuPoll ==
    /\ cpu_at = "poll"
    /\ IF active
       THEN ticks < MaxTicks /\ cpu_at' = "fetch" /\ ticks' = ticks + 1
       ELSE cpu_at' = "returned" /\ ticks' = ticks
    /\ UNCHANGED <<config, debug_assertions, gpuVars, alu, timerVars, mainVars, syncVars, ins, memVars, active, stack, stack_ptr, stackHist,
                   pc, v, last, keyVars, agentVars>>

\* CPU::run, an iteration whose fetch_instruction returns None or unwinds
CpuFetchFail ==
    /\ cpu_at = "fetch"
    /\ LET f == fetch_instruction(Machine)
       IN /\ ~f.ok
          /\ Commit(f.m)
          /\ cpu_at' = IF f.m.fault = "panic" THEN "panicked" ELSE "returned"
          /\ last' = [NoLast EXCEPT !.kind = "fetch_fail", !.fetch_pc = pc,
                                    !.read = f.read, !.pre_active = active,
                                    !.mid_pc = f.m.pc, !.mid_active = f.m.active]
    /\ UNCHANGED <<config, debug_assertions, gpuVars, alu, timerVars, mainVars, syncVars, ins, memVars, stackHist, ticks, keyVars, agentVars>>

\* the instruction fn makes the stack pointer wrap: a CALL on a full stack or
\* a RET on an empty one, with allow_stack_overflow
StackWraps(fn) ==
    /\ config.allow_stack_overflow
    /\ \/ fn = "i_2nnn_CALL_addr" /\ stack_ptr = StackSize
       \/ fn = "i_00EE_RET" /\ stack_ptr = 0

\* the CALLs not yet returned from after the instruction fn fetched at pc
CallsAfter(fn) ==
    CASE ins.wrapped \/ StackWraps(fn) -> <<>>
      [] fn = "i_2nnn_CALL_addr" /\ stack_ptr < StackSize -> Append(ins.calls, pc)
      [] fn = "i_00EE_RET" /\ stack_ptr > 0 /\ ins.calls # <<>> ->
             SubSeq(ins.calls, 1, Len(ins.calls) - 1)
      [] OTHER -> ins.calls

\* the history after an instruction: the handler, its opcode and the state
\* before its fetch, with the same of the instruction executed before it
InsAfter(fn, op) ==
    [fn |-> fn, op |-> op, pc |-> pc, v |-> v, index |-> index, heap |-> heap,
     stack |-> stack, stack_ptr |-> stack_ptr, active |-> active,
     key_states |-> key_states,
     before |-> [fn |-> ins.fn, op |-> ins.op, pc |-> ins.pc, v |-> ins.v,
                 index |-> ins.index, heap |-> ins.heap, stack |-> ins.stack,
                 stack_ptr |-> ins.stack_ptr, active |-> ins.active,
                 key_states |-> ins.key_states],
     calls |-> CallsAfter(fn),
     wrapped |-> ins.wrapped \/ StackWraps(fn)]

\* CPU::run, an iteration that fetches the opcode (hi, lo), decodes it to
\* the handler fn and executes it
CpuTick(fn, hi, lo) ==
    /\ cpu_at = "fetch"
    /\ LET f == fetch_instruction(Machine)
           op == from_u8s(hi, lo)
       IN /\ f.ok
          /\ get_instruction_function(op) = fn
          /\ LET m == IF fn = "none" THEN f.m ELSE execute_instruction(fn, f.m, op)
             IN /\ Commit(m)
                /\ cpu_at' = IF m.fault = "panic" THEN "panicked" ELSE "poll"
                /\ last' = [kind |-> "tick", fetch_pc |-> pc,
                            read |-> f.read, pre_active |-> active,
                            mid_pc |-> f.m.pc, mid_active |-> f.m.active,
                            skip |-> m.skip]
    /\ UNCHANGED <<config, debug_assertions, gpuVars, alu, timerVars, mainVars, syncVars, ins, memVars, stackHist, ticks, keyVars, agentVars>>

Step(fn) == \E w \in ProgramWords : CpuTick(fn, w \div 256, w % 256)

Exec_none ==
    /\ cpu_at = "fetch"
    /\ Step("none")

Exec_00EE_RET ==
    /\ cpu_at = "fetch"
    /\ Step("i_00EE_RET")

Exec_1nnn_JP_addr ==
    /\ cpu_at = "fetch"
    /\ Step("i_1nnn_JP_addr")

Exec_2nnn_CALL_addr ==
    /\ cpu_at = "fetch"
    /\ Step("i_2nnn_CALL_addr")

Exec_3xkk_SE_Vx_byte ==
    /\ cpu_at = "fetch"
    /\ Step("i_3xkk_SE_Vx_byte")

Exec_4xkk_SNE_Vx_byte ==
    /\ cpu_at = "fetch"
    /\ Step("i_4xkk_SNE_Vx_byte")

Exec_5xy0_SE_Vx_Vy ==
    /\ cpu_at = "fetch"
    /\ Step("i_5xy0_SE_Vx_Vy")

Exec_6xkk_LD_Vx_byte ==
    /\ cpu_at = "fetch"
    /\ Step("i_6xkk_LD_Vx_byte")

Exec_9xy0_SNE_Vx_Vy ==
    /\ cpu_at = "fetch"
    /\ Step("i_9xy0_SNE_Vx_Vy")

Exec_Bnnn_JP_V0_addr ==
    /\ cpu_at = "fetch"
    /\ Step("i_Bnnn_JP_V0_addr")


\* the machine after CPU::try_new and RAM::try_new, the CPU thread started
Init ==
    /\ config \in Configs
    /\ debug_assertions \in BOOLEAN
    /\ active = TRUE
    /\ stack = [i \in Slots |-> 0]
    /\ stack_ptr = 0
    /\ call = NoCall
    /\ pushlog = <<>>
    /\ poplog = <<>>
    /\ run_n = 0
    /\ run_sp = 0
    /\ run_active = TRUE
    /\ pc = PROGRAM_START_ADDRESS
    /\ v = [r \in Regs |-> 0]
    /\ cpu_at = "poll"
    /\ ticks = 0
    /\ last = NoLast
    /\ key_states = [k \in Keys |-> FALSE]
    /\ newest_key_state = "Finished"
    /\ newest_key = 0
    /\ fx = 0
    /\ host_keys = {}
    /\ host_at = "idle"
    /\ delay_at = "idle"
    /\ sound_at = "idle"
    /\ render_at = "idle"
    /\ hs = NoHistory
    /\ heap = NoBytes
    /\ mem = NoMem
    /\ index = 0
    /\ quirks = NoQuirks
    /\ gpu_config = DefaultGpuConfig
    /\ framebuffer = {}
    /\ draw = NoDraw
    /\ alu = NoAlu
    /\ delay_timer = 0
    /\ sound_timer = 0
    /\ sink = "paused"
    /\ tm = NoTimerHistory
    /\ main_at = "run_app"
    /\ exit_code = "none"
    /\ startup = StartedUp
    /\ render_queued = FALSE
    /\ present = NoPresent
    /\ limiter = NoLimiter
    /\ locks = NoLocks
    /\ ins = NoIns

Next ==
    \/ CpuPoll
    \/ CpuFetchFail
    \/ Exec_none
    \/ Exec_00EE_RET
    \/ Exec_1nnn_JP_addr
    \/ Exec_2nnn_CALL_addr
    \/ Exec_3xkk_SE_Vx_byte
    \/ Exec_4xkk_SNE_Vx_byte
    \/ Exec_5xy0_SE_Vx_Vy
    \/ Exec_6xkk_LD_Vx_byte
    \/ Exec_9xy0_SNE_Vx_Vy
    \/ Exec_Bnnn_JP_V0_addr

Spec == Init /\ [][Next]_vars

(* ----------------------- program counter: C9, C10 ---------------------- *)
\* C9: at every instruction boundary, for every program and configuration,
\* 0 <= PC <= 0xFFF; Bnnn, RET and the +2 advances never leave PC above 0xFFF.
C9_PcInAddressSpace == pc \in 0..4095

\* C10 as claimed: with allow_program_counter_overflow = true every advance
\* (by a fetch or by a taken skip) yields (PC+2) mod 0x1000 and leaves active
\* as it was; with it false an advance from PC >= 0xFFE fails, clears active
\* and leaves PC unchanged, and an advance from PC < 0xFFE adds exactly 2.
SkipAdvanceAsClaimed ==
    last.skip.called =>
        IF config.allow_program_counter_overflow \/ last.skip.from < 4094
        THEN /\ last.skip.ok
             /\ pc = (last.skip.from + 2) % 4096
             /\ last.skip.from < 4094 => pc = last.skip.from + 2
             /\ active = last.mid_active
        ELSE ~last.skip.ok /\ ~active /\ pc = last.skip.from

FetchAdvanced ==
    /\ last.kind = "tick"
    /\ last.mid_pc = (last.fetch_pc + 2) % 4096
    /\ last.fetch_pc < 4094 => last.mid_pc = last.fetch_pc + 2
    /\ last.mid_active = last.pre_active

FetchFailStopped ==
    /\ last.kind = "fetch_fail"
    /\ ~last.mid_active
    /\ last.mid_pc = last.fetch_pc
    /\ cpu_at = "returned"

KeyManager == [key_states |-> key_states, newest_key_state |-> newest_key_state,
               newest_key |-> newest_key]

\* update_input's loop body with a press completing the request at once
update_key_press_completes(st, i, pressed, released) ==
    IF i \in pressed
    THEN IF st.newest_key_state = "Requested"
         THEN [st EXCEPT !.key_states[i] = TRUE, !.newest_key = i,
                         !.newest_key_state = "Sent"]
         ELSE [st EXCEPT !.key_states[i] = TRUE]
    ELSE IF i \in released
         THEN [st EXCEPT !.key_states[i] = FALSE]
         ELSE st

\* update_input's loop body with the release not moving the handshake
update_key_release_ignored(st, i, pressed, released) ==
    IF i \in pressed
    THEN IF st.newest_key_state = "Requested"
         THEN [st EXCEPT !.key_states[i] = TRUE, !.newest_key = i,
                         !.newest_key_state = "Held"]
         ELSE [st EXCEPT !.key_states[i] = TRUE]
    ELSE IF i \in released
         THEN [st EXCEPT !.key_states[i] = FALSE]
         ELSE st

\* update_input's loop body with a press while Held taking the key slot
update_key_press_overwrites(st, i, pressed, released) ==
    IF i \in pressed
    THEN IF st.newest_key_state \in {"Requested", "Held"}
         THEN [st EXCEPT !.key_states[i] = TRUE, !.newest_key = i,
                         !.newest_key_state = "Held"]
         ELSE [st EXCEPT !.key_states[i] = TRUE]
    ELSE IF i \in released
         THEN IF st.newest_key_state = "Held"
              THEN [st EXCEPT !.key_states[i] = FALSE, !.newest_key_state = "Sent"]
              ELSE [st EXCEPT !.key_states[i] = FALSE]
         ELSE st

\* update_input, the body of its loop for key i: pressed and released are the
\* sets of keys for which key_pressed_logical and key_released_logical hold
update_key(st, i, pressed, released) ==
    IF i \in pressed
    THEN IF st.newest_key_state = "Requested"
         THEN [st EXCEPT !.key_states[i] = TRUE, !.newest_key = i,
                         !.newest_key_state = "Held"]
         ELSE [st EXCEPT !.key_states[i] = TRUE]
    ELSE IF i \in released
         THEN IF st.newest_key_state = "Held"
              THEN [st EXCEPT !.key_states[i] = FALSE, !.newest_key_state = "Sent"]
              ELSE [st EXCEPT !.key_states[i] = FALSE]
         ELSE st

\* update_input after the keys 0..n-1 of its loop
RECURSIVE update_input_upto(_, _, _, _)
update_input_upto(st, n, pressed, released) ==
    IF n = 0
    THEN st
    ELSE update_key(update_input_upto(st, n - 1, pressed, released),
                    n - 1, pressed, released)

\* InputManager::update_input
update_input(st, pressed, released) ==
    update_input_upto(st, NUMBER_OF_INPUTS, pressed, released)

\* InputManager::get_next_key_press, run from the position at ("enter", or
\* one of its two waits after a wake-up) until it waits again or returns:
\* at = "done" stands for the return of newest_key
get_next_key_press_second(state, act) ==
    IF state # "Sent" /\ act
    THEN [at |-> "key_wait_sent", newest_key_state |-> state, requested |-> FALSE]
    ELSE [at |-> "done", newest_key_state |-> "Finished", requested |-> FALSE]

get_next_key_press(at, state, act) ==
    IF at \in {"enter", "key_wait_finished"}
    THEN IF state # "Finished" /\ act
         THEN [at |-> "key_wait_finished", newest_key_state |-> state,
               requested |-> FALSE]
         ELSE [get_next_key_press_second("Requested", act) EXCEPT !.requested = TRUE]
    ELSE get_next_key_press_second(state, act)

\* the history after a call of get_next_key_press ran to the result r
HistoryAfterKeyPress(r) ==
    LET h == IF r.requested THEN [NoHistory EXCEPT !.phase = "open"] ELSE hs
    IN IF r.at = "done"
       THEN [h EXCEPT !.phase = "closed", !.key = newest_key,
                      !.ret = IF active THEN "key" ELSE "shutdown",
                      !.pressed = @ \cap {newest_key},
                      !.cycled = @ \cap {newest_key}]
       ELSE h

\* the history after update_input has delivered the batch (pressed, released)
HistoryAfterInput(pressed, released) ==
    IF hs.phase # "open"
    THEN hs
    ELSE LET before(i) == update_input_upto(KeyManager, i, pressed, released)
             onePress == Cardinality(pressed) = 1 /\ released = {}
             oneRelease == pressed = {} /\ released = {hs.first}
         IN [hs EXCEPT
               !.pressed = @ \cup pressed,
               !.cycled = @ \cup {k \in released : k \in hs.pressed}
                            \cup {k \in pressed \cap released : k \notin host_keys},
               !.press_req = @ \/ \E i \in pressed :
                                 before(i).newest_key_state = "Requested",
               !.rel_held = @ \/ \E i \in released :
                                 before(i).newest_key_state = "Held",
               !.script = CASE pressed = {} /\ released = {} -> @
                            [] @ = "none" /\ onePress -> "pressed"
                            [] @ = "pressed" /\ oneRelease -> "released"
                            [] OTHER -> "dirty",
               !.first = IF hs.script = "none" /\ onePress
                         THEN CHOOSE k \in pressed : TRUE ELSE @]

\* the batches the keyboard can produce in one step of the event loop: a key
\* that is up can go down, one that is down can go up, and either can do both
Batches ==
    {b \in [pressed : SUBSET HostKeySet, released : SUBSET HostKeySet] :
        /\ (b.pressed \ b.released) \cap host_keys = {}
        /\ (b.released \ b.pressed) \subseteq host_keys}


\* the key-waiting programs hold F00A at their first address
KeyWordsAt(addr) == IF addr = PROGRAM_START_ADDRESS THEN {61450} ELSE {}

\* the change of the input state by a call of get_next_key_press that ran
\* to the result r for the instruction Fx0A with register operand x
KeyPressCommit(r, x) ==
    /\ newest_key_state' = r.newest_key_state
    /\ hs' = HistoryAfterKeyPress(r)
    /\ fx' = x
    /\ UNCHANGED <<key_states, newest_key, host_keys>>

\* CPU::run, an iteration that fetches Fx0A: i_Fx0A_LD_Vx_K calls
\* get_next_key_press, which returns at once or parks the CPU in a wait
Exec_Fx0A_LD_Vx_K ==
    /\ cpu_at = "fetch"
    /\ \E w \in KeyWordsAt(pc) :
         LET f == fetch_instruction(Machine)
             op == from_u8s(w \div 256, w % 256)
             r == get_next_key_press("enter", newest_key_state, f.m.active)
         IN /\ f.ok
            /\ get_instruction_function(op) = "i_Fx0A_LD_Vx_K"
            /\ Commit(IF r.at = "done"
                      THEN [f.m EXCEPT !.v[get_x(op)] = newest_key]
                      ELSE f.m)
            /\ cpu_at' = IF r.at = "done" THEN "poll" ELSE r.at
            /\ last' = [kind |-> IF r.at = "done" THEN "key" ELSE "tick",
                        fetch_pc |-> pc, read |-> f.read, pre_active |-> active,
                        mid_pc |-> f.m.pc, mid_active |-> f.m.active,
                        skip |-> NoSkip]
            /\ KeyPressCommit(r, get_x(op))
    /\ UNCHANGED <<config, debug_assertions, gpuVars, alu, timerVars, mainVars, syncVars, ins, memVars, stackHist, ticks, agentVars>>

\* get_next_key_press wakes from one of its waits (notified or timed out) and
\* finds that it can go on; i_Fx0A_LD_Vx_K stores the returned key in Vx
KeyWake ==
    /\ cpu_at \in {"key_wait_finished", "key_wait_sent"}
    /\ LET r == get_next_key_press(cpu_at, newest_key_state, active)
       IN /\ r.at # cpu_at
          /\ cpu_at' = IF r.at = "done" THEN "poll" ELSE r.at
          /\ v' = IF r.at = "done" THEN [v EXCEPT ![fx] = newest_key] ELSE v
          /\ last' = IF r.at = "done" THEN [last EXCEPT !.kind = "key"] ELSE last
          /\ KeyPressCommit(r, fx)
    /\ UNCHANGED <<config, debug_assertions, gpuVars, alu, timerVars, mainVars, syncVars, ins, memVars, active, stack, stack_ptr, stackHist,
                   pc, ticks, agentVars>>

\* WindowManager::about_to_wait: the event loop ends when active is false or
\* the window was closed; otherwise the step's key events go to update_input
about_to_wait(close, b) ==
    /\ host_at = "running"
    /\ IF ~active
       THEN /\ host_at' = "exited"
            /\ UNCHANGED <<active, keyVars>>
       ELSE IF close
            THEN /\ active' = FALSE
                 /\ host_at' = "exited"
                 /\ UNCHANGED keyVars
            ELSE LET st == update_input(KeyManager, b.pressed, b.released)
                 IN /\ key_states' = st.key_states
                    /\ newest_key_state' = st.newest_key_state
                    /\ newest_key' = st.newest_key
                    /\ hs' = HistoryAfterInput(b.pressed, b.released)
                    /\ host_keys' = (host_keys \cup (b.pressed \ b.released))
                                       \ (b.released \ b.pressed)
                    /\ UNCHANGED <<active, fx, host_at>>
    /\ UNCHANGED <<config, debug_assertions, gpuVars, alu, timerVars, mainVars, syncVars, ins, memVars, stack, stack_ptr, stackHist, cpuVars,
                   delay_at, sound_at, render_at>>

HostStep ==
    /\ host_at = "running"
    /\ \E close \in BOOLEAN, b \in Batches : about_to_wait(close, b)

\* DelayTimer::run leaves its loop when active is false
DelayTimerReturn ==
    /\ delay_at = "running"
    /\ ~active
    /\ delay_at' = "returned"
    /\ UNCHANGED <<config, debug_assertions, gpuVars, alu, timerVars, mainVars, syncVars, ins, memVars, active, stack, stack_ptr, stackHist,
                   cpuVars, keyVars, host_at, sound_at, render_at>>

\* SoundTimer::run leaves its loop when active is false
SoundTimerReturn ==
    /\ sound_at = "running"
    /\ ~active
    /\ sound_at' = "returned"
    /\ UNCHANGED <<config, debug_assertions, gpuVars, alu, timerVars, mainVars, syncVars, ins, memVars, active, stack, stack_ptr, stackHist,
                   cpuVars, keyVars, host_at, delay_at, render_at>>

\* GPU::run_separate_render leaves its loop when active is false
SeparateRenderReturn ==
    /\ render_at = "running"
    /\ ~active
    /\ render_at' = "returned"
    /\ UNCHANGED <<config, debug_assertions, gpuVars, alu, timerVars, mainVars, syncVars, ins, memVars, active, stack, stack_ptr, stackHist,
                   cpuVars, keyVars, host_at, delay_at, sound_at>>

\* main after the threads are spawned and the event loop runs; the render
\* thread exists only when should_render_separately()
InitKey ==
    /\ config = [allow_stack_overflow |-> FALSE, allow_heap_overflow |-> FALSE,
                 allow_program_counter_overflow |-> FALSE,
                 use_new_jump_instruction |-> FALSE]
    /\ debug_assertions \in BOOLEAN
    /\ active = TRUE
    /\ stack = [i \in Slots |-> 0]
    /\ stack_ptr = 0
    /\ call = NoCall
    /\ pushlog = <<>>
    /\ poplog = <<>>
    /\ run_n = 0
    /\ run_sp = 0
    /\ run_active = TRUE
    /\ pc = PROGRAM_START_ADDRESS
    /\ v = [r \in Regs |-> 0]
    /\ cpu_at = "poll"
    /\ ticks = 0
    /\ last = NoLast
    /\ key_states = [k \in Keys |-> FALSE]
    /\ newest_key_state = "Finished"
    /\ newest_key = 0
    /\ fx = 0
    /\ host_keys = {}
    /\ host_at = "running"
    /\ delay_at = "running"
    /\ sound_at = "running"
    /\ render_at \in {"not_spawned", "running"}
    /\ hs = NoHistory
    /\ heap = NoBytes
    /\ mem = NoMem
    /\ index = 0
    /\ quirks = NoQuirks
    /\ gpu_config = DefaultGpuConfig
    /\ framebuffer = {}
    /\ draw = NoDraw
    /\ alu = NoAlu
    /\ delay_timer = 0
    /\ sound_timer = 0
    /\ sink = "paused"
    /\ tm = NoTimerHistory
    /\ main_at = "run_app"
    /\ exit_code = "none"
    /\ startup = StartedUp
    /\ render_queued = FALSE
    /\ present = NoPresent
    /\ limiter = NoLimiter
    /\ locks = NoLocks
    /\ ins = NoIns

CpuThread ==
    \/ CpuPoll
    \/ CpuFetchFail
    \/ Exec_none
    \/ Exec_Bnnn_JP_V0_addr
    \/ Exec_Fx0A_LD_Vx_K
    \/ KeyWake

NextKey ==
    \/ CpuThread
    \/ HostStep
    \/ DelayTimerReturn
    \/ SoundTimerReturn
    \/ SeparateRenderReturn

\* every thread that can take a step eventually takes one; the user and the
\* window system are under no obligation
SpecKey ==
    /\ InitKey
    /\ [][NextKey]_vars
    /\ WF_vars(CpuThread)
    /\ WF_vars(DelayTimerReturn)
    /\ WF_vars(SoundTimerReturn)
    /\ WF_vars(SeparateRenderReturn)


(* ----------------------- the blocking key: C1..C4 ---------------------- *)
ReturnedWithKey == hs.phase = "closed" /\ hs.ret = "key"

\* C1: when Fx0A returns a key while active is true, that key was pressed
\* after the request and the same key was released after that press; the
\* release of a different key while the handshake is Held does not complete
\* the instruction.
C1_ReturnedKeyWasReleased == ReturnedWithKey => hs.key \in hs.cycled

\* C2: when Fx0A returns while active is true, the returned key was pressed
\* after the request, a press was delivered while the handshake was Requested
\* and a release was delivered after it became Held; as long as no such
\* release has been delivered and active is true, Fx0A stays blocked.
C2_BlockedUntilRelease ==
    /\ ReturnedWithKey => hs.key \in hs.pressed /\ hs.press_req /\ hs.rel_held
    /\ (hs.phase = "open" /\ ~hs.rel_held /\ active) =>
           /\ cpu_at = "key_wait_sent"
           /\ newest_key_state \in {"Requested", "Held"}

C2_Witness ==
    /\ ReturnedWithKey
    /\ hs.rel_held
    /\ hs.key \in host_keys
    /\ cpu_at = "poll"

\* C3: if, after Fx0A has issued its request, a batch holding only the press
\* of key k and a later batch holding only the release of k are delivered
\* with no other key event in between, then Fx0A eventually returns with
\* Vx = k, the handshake back at Finished and PC at the address after the Fx0A.
C3_PressReleaseReturns ==
    \A k \in HostKeySet :
        (hs.phase = "open" /\ hs.script = "released" /\ hs.first = k)
            ~> (/\ hs.phase = "closed"
                /\ last.kind = "key"
                /\ v[fx] = k
                /\ newest_key_state = "Finished"
                /\ pc = (last.fetch_pc + 2) % 4096)

C3_Witness ==
    /\ ReturnedWithKey
    /\ hs.script = "released"
    /\ hs.first = 1
    /\ v[fx] = 1
    /\ newest_key_state = "Finished"
    /\ pc = PROGRAM_START_ADDRESS + 2

\* C4: once active is false, the run method of the CPU, of the delay timer,
\* of the sound timer and of the separate renderer (when it was started)
\* eventually returns.
C4_EveryRunReturns ==
    (~active) ~> (/\ cpu_at = "returned"
                  /\ delay_at = "returned"
                  /\ sound_at = "returned"
                  /\ render_at \in {"not_spawned", "returned"})


(* -------------------------- key handshake: C28 ------------------------- *)
\* what the key i of the batch b does to the handshake st in update_input:
\* nothing, Requested -> Held on its press with the key slot written, or
\* Held -> Sent on its release with the key slot left alone
InputMovesAlongCycle(st, i, b) ==
    LET after == update_key(st, i, b.pressed, b.released)
    IN \/ /\ after.newest_key_state = st.newest_key_state
          /\ after.newest_key = st.newest_key
       \/ /\ st.newest_key_state = "Requested" /\ after.newest_key_state = "Held"
          /\ i \in b.pressed
          /\ after.newest_key = i
       \/ /\ st.newest_key_state = "Held" /\ after.newest_key_state = "Sent"
          /\ i \in b.released
          /\ after.newest_key = st.newest_key

\* every key event of every batch the keyboard can deliver now moves the
\* handshake along the cycle
EveryInputMovesAlongCycle ==
    \A b \in Batches : \A i \in b.pressed \cup b.released :
        InputMovesAlongCycle(update_input_upto(KeyManager, i, b.pressed, b.released), i, b)

\* the CPU is inside get_next_key_press
InFx0A == cpu_at \in {"key_wait_finished", "key_wait_sent"}

\* a step of the CPU thread: Finished -> Requested on entering Fx0A,
\* Sent -> Finished on leaving it, or back to Finished when active is false;
\* the key slot is not written
CpuMovesAlongCycle ==
    /\ newest_key' = newest_key
    /\ \/ newest_key_state' = newest_key_state
       \/ newest_key_state = "Finished" /\ newest_key_state' = "Requested" /\ InFx0A'
       \/ newest_key_state = "Sent" /\ newest_key_state' = "Finished" /\ InFx0A
       \/ ~active /\ newest_key_state' = "Finished"

\* a step of the event loop: update_input has gone Requested -> Held,
\* Held -> Sent or both, and the key slot changes only when it left Requested
HostMovesAlongCycle ==
    /\ <<newest_key_state, newest_key_state'>> \in
          {<<"Finished", "Finished">>, <<"Requested", "Requested">>,
           <<"Requested", "Held">>, <<"Requested", "Sent">>,
           <<"Held", "Held">>, <<"Held", "Sent">>, <<"Sent", "Sent">>}
    /\ newest_key' # newest_key => newest_key_state = "Requested"
    /\ newest_key_state # "Requested" => newest_key' = newest_key

\* C28: the key handshake only moves along the cycle Finished -> Requested
\* (by the CPU in Fx0A), Requested -> Held (by update_input on a press),
\* Held -> Sent (by update_input on a release), Sent -> Finished (by the CPU),
\* plus the CPU putting it back to Finished when active is false; the key
\* slot is written only in the step Requested -> Held, so a later press while
\* Held does not overwrite it; and the handshake is Finished whenever the CPU
\* is not executing Fx0A.
C28_HandshakeCycle ==
    /\ [](EveryInputMovesAlongCycle /\ (~InFx0A => newest_key_state = "Finished"))
    /\ [][IF cpu_at' # cpu_at THEN CpuMovesAlongCycle ELSE HostMovesAlongCycle]_vars

\* key 1 took the slot when it was pressed on the request; key 0 was pressed
\* later, while Held, and the slot still holds 1
C28_Witness ==
    /\ cpu_at = "key_wait_sent"
    /\ newest_key_state = "Held"
    /\ newest_key = 1
    /\ hs.pressed = {0, 1}
    /\ key_states[0] /\ key_states[1]


(* ------------------------ program counter: C11 ------------------------- *)
\* C11: at every instruction boundary (the CPU is at the head of its loop)
\* PC is even, for every program started at PC = 0x200, also after 1nnn,
\* 2nnn, Bnnn and RET.
C11_PcEven == cpu_at = "poll" => pc % 2 = 0


(* ------------------------------- RAM heap ------------------------------ *)
\* heap[a] of the array [u8; HEAP_SIZE]
heap_byte(h, a) == IF a \in DOMAIN h THEN h[a] ELSE 0

\* heap[start..start+Len(vals)].copy_from_slice(vals)
copy_from_slice(h, start, vals) ==
    LET range == {start + j - 1 : j \in 1..Len(vals)}
        set == {a \in range : vals[a - start + 1] # 0}
    IN [a \in (DOMAIN h \ range) \cup set |->
           IF a \in range THEN vals[a - start + 1] ELSE h[a]]

\* heap[start..start+count].to_vec()
heap_slice(h, start, count) == [j \in 1..count |-> heap_byte(h, start + j - 1)]

\* write_bytes with the bytes after the split put where the bytes before it went
write_bytes_no_split(h, vals, addr) ==
    LET count == Len(vals)
    IN IF addr + count > HEAP_SIZE
       THEN IF ~config.allow_heap_overflow
            THEN [result |-> "fail", heap |-> h, halt |-> TRUE]
            ELSE IF addr > HEAP_SIZE
                 THEN [result |-> "panic", heap |-> h, halt |-> FALSE]
                 ELSE LET count_pre_split == HEAP_SIZE - addr
                          count_post_split == count - count_pre_split
                      IN [result |-> "ok",
                          heap |-> copy_from_slice(
                                       copy_from_slice(h, addr, SubSeq(vals, 1, count_pre_split)),
                                       addr - count_post_split,
                                       SubSeq(vals, count_pre_split + 1, count)),
                          halt |-> FALSE]
       ELSE [result |-> "ok", heap |-> copy_from_slice(h, addr, vals), halt |-> FALSE]

\* write_bytes that stores the part that fits before it reports the overflow
write_bytes_partial(h, vals, addr) ==
    LET count == Len(vals)
    IN IF addr + count > HEAP_SIZE
       THEN IF ~config.allow_heap_overflow
            THEN [result |-> "fail",
                  heap |-> IF addr < HEAP_SIZE
                           THEN copy_from_slice(h, addr, SubSeq(vals, 1, HEAP_SIZE - addr))
                           ELSE h,
                  halt |-> TRUE]
            ELSE IF addr > HEAP_SIZE
                 THEN [result |-> "panic", heap |-> h, halt |-> FALSE]
                 ELSE LET count_pre_split == HEAP_SIZE - addr
                      IN [result |-> "ok",
                          heap |-> copy_from_slice(
                                       copy_from_slice(h, addr, SubSeq(vals, 1, count_pre_split)),
                                       0, SubSeq(vals, count_pre_split + 1, count)),
                          halt |-> FALSE]
       ELSE [result |-> "ok", heap |-> copy_from_slice(h, addr, vals), halt |-> FALSE]

\* RAM::write_bytes on the heap h: result "ok" stands for true, "fail" for
\* false with active cleared (halt), "panic" for the thread unwinding: with
\* wrap allowed and addr > HEAP_SIZE the subtraction HEAP_SIZE - addr
\* overflows (checked builds) or heap[addr..] starts past the end
write_bytes(h, vals, addr) ==
    LET count == Len(vals)
    IN IF addr + count > HEAP_SIZE
       THEN IF ~config.allow_heap_overflow
            THEN [result |-> "fail", heap |-> h, halt |-> TRUE]
            ELSE IF addr > HEAP_SIZE
                 THEN [result |-> "panic", heap |-> h, halt |-> FALSE]
                 ELSE LET count_pre_split == HEAP_SIZE - addr
                      IN [result |-> "ok",
                          heap |-> copy_from_slice(
                                       copy_from_slice(h, addr, SubSeq(vals, 1, count_pre_split)),
                                       0, SubSeq(vals, count_pre_split + 1, count)),
                          halt |-> FALSE]
       ELSE [result |-> "ok", heap |-> copy_from_slice(h, addr, vals), halt |-> FALSE]

\* read_bytes whose wrapped part starts over at the first byte read
read_bytes_no_wrap(h, addr, count) ==
    IF addr + count > HEAP_SIZE
    THEN IF ~config.allow_heap_overflow
         THEN [result |-> "fail", bytes |-> <<>>, halt |-> TRUE]
         ELSE IF addr > HEAP_SIZE
              THEN [result |-> "panic", bytes |-> <<>>, halt |-> FALSE]
              ELSE LET count_pre_split == HEAP_SIZE - addr
                       count_post_split == count - count_pre_split
                   IN [result |-> "ok",
                       bytes |-> heap_slice(h, addr, count_pre_split)
                                 \o heap_slice(h, addr, count_post_split),
                       halt |-> FALSE]
    ELSE [result |-> "ok", bytes |-> heap_slice(h, addr, count), halt |-> FALSE]

\* RAM::read_bytes on the heap h: result "ok" stands for Some(bytes), "fail"
\* for None with active cleared (halt), "panic" as in write_bytes
read_bytes(h, addr, count) ==
    IF addr + count > HEAP_SIZE
    THEN IF ~config.allow_heap_overflow
         THEN [result |-> "fail", bytes |-> <<>>, halt |-> TRUE]
         ELSE IF addr > HEAP_SIZE
              THEN [result |-> "panic", bytes |-> <<>>, halt |-> FALSE]
              ELSE LET count_pre_split == HEAP_SIZE - addr
                       count_post_split == count - count_pre_split
                   IN [result |-> "ok",
                       bytes |-> heap_slice(h, addr, count_pre_split)
                                 \o heap_slice(h, 0, count_post_split),
                       halt |-> FALSE]
    ELSE [result |-> "ok", bytes |-> heap_slice(h, addr, count), halt |-> FALSE]


\* the addresses and byte values the callers pass
HeapAddrs == {0, HEAP_SIZE - 2, HEAP_SIZE - 1, HEAP_SIZE, HEAP_SIZE + 1}
HeapBytes == {1, 2}
RECURSIVE ByteSeqs(_)
ByteSeqs(n) ==
    IF n = 0
    THEN {<<>>}
    ELSE ByteSeqs(n - 1)
         \cup {Append(q, b) : q \in {r \in ByteSeqs(n - 1) : Len(r) = n - 1}, b \in HeapBytes}

\* the byte sequences the callers write
HeapVals == ByteSeqs(MaxLen)

\* RAM::try_new followed by nothing else: the heap is zeroed
InitHeap ==
    /\ config \in {c \in Configs : ~c.allow_stack_overflow
                                   /\ ~c.allow_program_counter_overflow
                                   /\ ~c.use_new_jump_instruction}
    /\ debug_assertions = FALSE
    /\ active = TRUE
    /\ stack = [i \in Slots |-> 0]
    /\ stack_ptr = 0
    /\ call = NoCall
    /\ pushlog = <<>>
    /\ poplog = <<>>
    /\ run_n = 0
    /\ run_sp = 0
    /\ run_active = TRUE
    /\ pc = PROGRAM_START_ADDRESS
    /\ v = [r \in Regs |-> 0]
    /\ cpu_at = "idle"
    /\ ticks = 0
    /\ last = NoLast
    /\ key_states = [k \in Keys |-> FALSE]
    /\ newest_key_state = "Finished"
    /\ newest_key = 0
    /\ fx = 0
    /\ host_keys = {}
    /\ host_at = "idle"
    /\ delay_at = "idle"
    /\ sound_at = "idle"
    /\ render_at = "idle"
    /\ hs = NoHistory
    /\ heap = NoBytes
    /\ mem = NoMem
    /\ index = 0
    /\ quirks = NoQuirks
    /\ gpu_config = DefaultGpuConfig
    /\ framebuffer = {}
    /\ draw = NoDraw
    /\ alu = NoAlu
    /\ delay_timer = 0
    /\ sound_timer = 0
    /\ sink = "paused"
    /\ tm = NoTimerHistory
    /\ main_at = "run_app"
    /\ exit_code = "none"
    /\ startup = StartedUp
    /\ render_queued = FALSE
    /\ present = NoPresent
    /\ limiter = NoLimiter
    /\ locks = NoLocks
    /\ ins = NoIns

\* a caller invokes ram.write_bytes(&vals, addr)
WriteBytes(vals, addr) ==
    LET r == write_bytes(heap, vals, addr)
    IN /\ mem.result # "panic"
       /\ heap' = r.heap
       /\ active' = IF r.halt THEN FALSE ELSE active
       /\ mem' = [op |-> "write", addr |-> addr, vals |-> vals, count |-> Len(vals),
                  result |-> r.result, bytes |-> <<>>, pre_heap |-> heap,
                  pre_active |-> active]
       /\ UNCHANGED <<config, debug_assertions, gpuVars, alu, timerVars, mainVars, syncVars, ins, index, quirks, stack, stack_ptr,
                      stackHist, cpuVars, keyVars, agentVars>>

\* a caller invokes ram.read_bytes(addr, count)
ReadBytes(addr, count) ==
    LET r == read_bytes(heap, addr, count)
    IN /\ mem.result # "panic"
       /\ heap' = heap
       /\ active' = IF r.halt THEN FALSE ELSE active
       /\ mem' = [op |-> "read", addr |-> addr, vals |-> <<>>, count |-> count,
                  result |-> r.result, bytes |-> r.bytes, pre_heap |-> heap,
                  pre_active |-> active]
       /\ UNCHANGED <<config, debug_assertions, gpuVars, alu, timerVars, mainVars, syncVars, ins, index, quirks, stack, stack_ptr,
                      stackHist, cpuVars, keyVars, agentVars>>

\* the callers are instructions, which run while active is true
HeapWrite ==
    /\ active
    /\ \E vals \in HeapVals, addr \in HeapAddrs : WriteBytes(vals, addr)

HeapRead ==
    /\ active
    /\ \E addr \in HeapAddrs, count \in 0..MaxLen : ReadBytes(addr, count)

NextHeap ==
    \/ HeapWrite
    \/ HeapRead

SpecHeap == InitHeap /\ [][NextHeap]_vars


(* ------------------------- heap: claims C12..C14 ----------------------- *)
\* the byte sequence found at the addresses (addr + j) mod 0x1000, j < count
WrappedBytes(h, addr, count) ==
    [j \in 1..count |-> heap_byte(h, (addr + j - 1) % HEAP_SIZE)]

\* C12: with allow_heap_overflow = true, read_bytes(0x1000 - k, n) with
\* 0 < k < n returns the k bytes at 0x1000-k..0xFFF followed by the n-k bytes
\* at 0..n-k-1, leaves the heap unchanged and leaves active true.
C12_ReadWraps ==
    (/\ config.allow_heap_overflow
     /\ mem.op = "read"
     /\ mem.addr < HEAP_SIZE
     /\ mem.addr + mem.count > HEAP_SIZE) =>
        /\ mem.result = "ok"
        /\ mem.bytes = heap_slice(mem.pre_heap, mem.addr, HEAP_SIZE - mem.addr)
                       \o heap_slice(mem.pre_heap, 0, mem.count - (HEAP_SIZE - mem.addr))
        /\ heap = mem.pre_heap
        /\ active

C12_Witness ==
    /\ config.allow_heap_overflow
    /\ mem.op = "read" /\ mem.addr = HEAP_SIZE - 1 /\ mem.count = 3
    /\ mem.bytes = <<2, 1, 2>>
    /\ active

\* C13: for a start address a in 0..0xFFF and bytes vals that the policy
\* admits (a + len <= 0x1000, or wrap allowed), write_bytes(vals, a) succeeds,
\* read_bytes(a, len) then returns vals, byte j of vals is at address
\* (a + j) mod 0x1000, and every other heap byte is unchanged.
C13_WriteThenRead ==
    (/\ mem.op = "write"
     /\ mem.addr < HEAP_SIZE
     /\ mem.addr + mem.count <= HEAP_SIZE \/ config.allow_heap_overflow) =>
        /\ mem.result = "ok"
        /\ read_bytes(heap, mem.addr, mem.count).result = "ok"
        /\ read_bytes(heap, mem.addr, mem.count).bytes = mem.vals
        /\ WrappedBytes(heap, mem.addr, mem.count) = mem.vals
        /\ \A a \in (DOMAIN heap \cup DOMAIN mem.pre_heap)
                    \ {(mem.addr + j - 1) % HEAP_SIZE : j \in 1..mem.count} :
               heap_byte(heap, a) = heap_byte(mem.pre_heap, a)

C13_Witness ==
    /\ mem.op = "write" /\ mem.addr = HEAP_SIZE - 1 /\ mem.vals = <<1, 2, 1>>
    /\ mem.result = "ok"
    /\ heap_byte(mem.pre_heap, 0) = 1
    /\ heap_byte(heap, HEAP_SIZE - 2) = 2

\* C14: with allow_heap_overflow = false a read_bytes or write_bytes with
\* addr + n > 0x1000 fails, clears active and leaves every heap byte as it
\* was; an access with addr + n = 0x1000 succeeds.
C14_OverflowFails ==
    (~config.allow_heap_overflow /\ mem.op \in {"read", "write"}) =>
        /\ mem.addr + mem.count > HEAP_SIZE =>
              mem.result = "fail" /\ ~active /\ heap = mem.pre_heap
        /\ mem.addr + mem.count = HEAP_SIZE =>
              mem.result = "ok" /\ active = mem.pre_active

C14_Witness ==
    /\ ~config.allow_heap_overflow
    /\ mem.op = "write" /\ mem.addr = HEAP_SIZE - 1 /\ mem.count = 2
    /\ mem.result = "fail" /\ mem.pre_active /\ ~active
    /\ heap_byte(heap, HEAP_SIZE - 1) # 0


(* ------------------- index register and memory instructions ------------ *)
\* CPU::set_index_reg
set_index_reg(m, value) ==
    IF debug_assertions /\ value > 4095
    THEN [m EXCEPT !.fault = "panic"]
    ELSE [m EXCEPT !.index = value]

\* CPU::increment_index_reg_ref_by on the 16-bit register: ok = FALSE stands
\* for None, out is the returned flag
increment_index_reg_by(m, value) ==
    LET sum == m.index + value
        wrapped == sum > 65535
        val == sum % 65536
    IN IF wrapped /\ ~quirks.allow_index_register_overflow
       THEN [ok |-> FALSE, out |-> FALSE, m |-> [m EXCEPT !.active = FALSE]]
       ELSE [ok |-> TRUE, out |-> val > 4095, m |-> [m EXCEPT !.index = val]]

\* ram.read_bytes(addr, count) called by a handler: the machine afterwards
\* and the result of the call
ram_read(m, addr, count) ==
    LET r == read_bytes(m.heap, addr, count)
    IN [r |-> r,
        m |-> [m EXCEPT !.active = IF r.halt THEN FALSE ELSE @,
                        !.fault = IF r.result = "panic" THEN "panic" ELSE @,
                        !.mem = [op |-> "read", addr |-> addr, vals |-> <<>>,
                                 count |-> count, result |-> r.result,
                                 bytes |-> r.bytes, pre_heap |-> m.heap,
                                 pre_active |-> m.active]]]

\* ram.write_bytes(&vals, addr) called by a handler
ram_write(m, vals, addr) ==
    LET r == write_bytes(m.heap, vals, addr)
    IN [r |-> r,
        m |-> [m EXCEPT !.heap = r.heap,
                        !.active = IF r.halt THEN FALSE ELSE @,
                        !.fault = IF r.result = "panic" THEN "panic" ELSE @,
                        !.mem = [op |-> "write", addr |-> addr, vals |-> vals,
                                 count |-> Len(vals), result |-> r.result,
                                 bytes |-> <<>>, pre_heap |-> m.heap,
                                 pre_active |-> m.active]]]

\* CPU::get_v_reg_range(0..=x)
get_v_reg_range(m, x) == [j \in 1..(x + 1) |-> m.v[j - 1]]

\* CPU::set_v_reg_range(0, &vals)
set_v_reg_range(m, vals) ==
    [m EXCEPT !.v = [r \in Regs |-> IF r < Len(vals) THEN vals[r + 1] ELSE m.v[r]]]

i_Annn_LD_I_addr(m, op) == set_index_reg(m, get_addr(op))

i_Fx1E_ADD_I_Vx(m, op) ==
    LET r == increment_index_reg_by(m, m.v[get_x(op)])
    IN IF ~r.ok
       THEN r.m
       ELSE IF r.out /\ quirks.set_flag_for_index_overflow
            THEN [r.m EXCEPT !.v[15] = 1]
            ELSE r.m

\* Fx33 that stores the digits lowest first
i_Fx33_LD_B_Vx_ones_first(m, op) ==
    LET vx == m.v[get_x(op)]
        bcd == <<vx % 10, (vx \div 10) % 10, vx \div 100>>
    IN ram_write(m, bcd, m.index).m

i_Fx33_LD_B_Vx(m, op) ==
    LET vx == m.v[get_x(op)]
        bcd == <<vx \div 100, (vx \div 10) % 10, vx % 10>>
    IN ram_write(m, bcd, m.index).m

\* Fx55 that leaves I behind the last byte stored
i_Fx55_LD_I_Vx_past_last(m, op) ==
    LET x == get_x(op)
        w == ram_write(m, get_v_reg_range(m, x), m.index)
    IN IF w.m.fault = "panic"
       THEN w.m
       ELSE IF quirks.move_index_with_reads
            THEN increment_index_reg_by(w.m, x + 1).m
            ELSE w.m

\* the flag returned by write_bytes is not looked at
i_Fx55_LD_I_Vx(m, op) ==
    LET x == get_x(op)
        w == ram_write(m, get_v_reg_range(m, x), m.index)
    IN IF w.m.fault = "panic"
       THEN w.m
       ELSE IF quirks.move_index_with_reads
            THEN increment_index_reg_by(w.m, x).m
            ELSE w.m

i_Fx65_LD_Vx_I(m, op) ==
    LET x == get_x(op)
        rd == ram_read(m, m.index, x + 1)
    IN IF rd.r.result # "ok"
       THEN rd.m
       ELSE LET m1 == set_v_reg_range(rd.m, rd.r.bytes)
            IN IF quirks.move_index_with_reads
               THEN increment_index_reg_by(m1, x).m
               ELSE m1

\* CPU::execute_instruction for the handlers that use I and the heap
execute_mem_instruction(fn, m, op) ==
    CASE fn = "i_6xkk_LD_Vx_byte" -> i_6xkk_LD_Vx_byte(m, op)
      [] fn = "i_Annn_LD_I_addr" -> i_Annn_LD_I_addr(m, op)
      [] fn = "i_Fx1E_ADD_I_Vx" -> i_Fx1E_ADD_I_Vx(m, op)
      [] fn = "i_Fx33_LD_B_Vx" -> i_Fx33_LD_B_Vx(m, op)
      [] fn = "i_Fx55_LD_I_Vx" -> i_Fx55_LD_I_Vx(m, op)
      [] fn = "i_Fx65_LD_Vx_I" -> i_Fx65_LD_Vx_I(m, op)

\* the opcodes of the programs that use I: 60FF 609C 6107, AFFF AFFD A000,
\* F01E, F033 F133, F055 F155, F065 F165 F265 F365
MemWords == {24831, 24732, 24839, 45055, 45053, 40960, 61470, 61491, 61747, 61525,
             61781, 61541, 61797, 62053, 62309}

\* CPU::run, an iteration that fetches the opcode w and executes its
\* handler fn, one that uses I or the heap
MemTick(fn, w) ==
    /\ cpu_at = "fetch"
    /\ LET f == fetch_instruction(Machine)
           op == from_u8s(w \div 256, w % 256)
       IN /\ f.ok
          /\ get_instruction_function(op) = fn
          /\ LET m == execute_mem_instruction(fn, f.m, op)
             IN /\ Commit(m)
                /\ index' = m.index
                /\ heap' = m.heap
                /\ mem' = m.mem
                /\ ins' = InsAfter(fn, op)
                /\ cpu_at' = IF m.fault = "panic" THEN "panicked" ELSE "poll"
                /\ last' = [kind |-> "tick", fetch_pc |-> pc,
                            read |-> f.read, pre_active |-> active,
                            mid_pc |-> f.m.pc, mid_active |-> f.m.active,
                            skip |-> m.skip]
    /\ UNCHANGED <<config, debug_assertions, gpuVars, alu, timerVars, mainVars, syncVars, quirks, stackHist, ticks, keyVars, agentVars>>


MemStep(fn) == \E w \in MemWords : MemTick(fn, w)

Mem_6xkk_LD_Vx_byte ==
    /\ cpu_at = "fetch"
    /\ MemStep("i_6xkk_LD_Vx_byte")

Mem_Annn_LD_I_addr ==
    /\ cpu_at = "fetch"
    /\ MemStep("i_Annn_LD_I_addr")

Mem_Fx1E_ADD_I_Vx ==
    /\ cpu_at = "fetch"
    /\ MemStep("i_Fx1E_ADD_I_Vx")

Mem_Fx33_LD_B_Vx ==
    /\ cpu_at = "fetch"
    /\ MemStep("i_Fx33_LD_B_Vx")

Mem_Fx55_LD_I_Vx ==
    /\ cpu_at = "fetch"
    /\ MemStep("i_Fx55_LD_I_Vx")

Mem_Fx65_LD_Vx_I ==
    /\ cpu_at = "fetch"
    /\ MemStep("i_Fx65_LD_Vx_I")

\* the machine after CPU::try_new and RAM::try_new, the CPU thread started
InitMem ==
    /\ config \in {c \in Configs : ~c.allow_stack_overflow
                                   /\ ~c.allow_program_counter_overflow
                                   /\ ~c.use_new_jump_instruction}
    /\ debug_assertions \in BOOLEAN
    /\ active = TRUE
    /\ stack = [i \in Slots |-> 0]
    /\ stack_ptr = 0
    /\ call = NoCall
    /\ pushlog = <<>>
    /\ poplog = <<>>
    /\ run_n = 0
    /\ run_sp = 0
    /\ run_active = TRUE
    /\ pc = PROGRAM_START_ADDRESS
    /\ v = [r \in Regs |-> 0]
    /\ cpu_at = "poll"
    /\ ticks = 0
    /\ last = NoLast
    /\ key_states = [k \in Keys |-> FALSE]
    /\ newest_key_state = "Finished"
    /\ newest_key = 0
    /\ fx = 0
    /\ host_keys = {}
    /\ host_at = "idle"
    /\ delay_at = "idle"
    /\ sound_at = "idle"
    /\ render_at = "idle"
    /\ hs = NoHistory
    /\ heap = NoBytes
    /\ mem = NoMem
    /\ index = 0
    /\ quirks \in {q \in Quirks : /\ ~q.use_new_shift_instruction
                                /\ ~q.reset_flag_for_bitwise_operations
                                /\ ~q.limit_to_one_draw_per_frame}
    /\ gpu_config = DefaultGpuConfig
    /\ framebuffer = {}
    /\ draw = NoDraw
    /\ alu = NoAlu
    /\ delay_timer = 0
    /\ sound_timer = 0
    /\ sink = "paused"
    /\ tm = NoTimerHistory
    /\ main_at = "run_app"
    /\ exit_code = "none"
    /\ startup = StartedUp
    /\ render_queued = FALSE
    /\ present = NoPresent
    /\ limiter = NoLimiter
    /\ locks = NoLocks
    /\ ins = NoIns

NextMem ==
    \/ CpuPoll
    \/ Mem_6xkk_LD_Vx_byte
    \/ Mem_Annn_LD_I_addr
    \/ Mem_Fx1E_ADD_I_Vx
    \/ Mem_Fx33_LD_B_Vx
    \/ Mem_Fx55_LD_I_Vx
    \/ Mem_Fx65_LD_Vx_I

SpecMem == InitMem /\ [][NextMem]_vars

(* ---------------------- heap accesses of instructions: C15 ------------- *)
\* C15: every heap access made by an instruction (Fx33, Fx55, Fx65), for
\* every reachable value of I, either succeeds (wrapping where allowed) or
\* fails and clears active; it never leaves the heap and never ends the CPU
\* thread abnormally.
C15_HeapAccessInBounds ==
    mem.op \in {"read", "write"} =>
        /\ mem.result \in {"ok", "fail"}
        /\ mem.result = "fail" => ~active
        /\ cpu_at # "panicked"

(***************************************************************************)
(* The GPU (gpu.rs).  The framebuffer is a vector of W*H booleans, all     *)
(* false after try_new; here it is the set of the indices that are true.   *)
(***************************************************************************)
MaxDraws == 2
MaxRows == 2

Resolutions == {<<4, 2>>, <<64, 32>>}
RenderOccasions == {"Changes", "Frequency"}
GpuConfigs == {[horizontal_resolution |-> r[1], vertical_resolution |-> r[2],
                wrap_sprite_positions |-> wp, wrap_sprite_pixels |-> wx,
                render_occasion |-> ro] :
                   r \in Resolutions, wp \in BOOLEAN, wx \in BOOLEAN,
                   ro \in RenderOccasions}

\* bit k of a byte, bit 0 being the least significant
byte_bit(byte, k) == (byte \div (2 ^ k)) % 2

\* framebuffer[index] ^= true
flip(fb, at) == IF at \in fb THEN fb \ {at} ELSE fb \cup {at}

\* draw_pixel without the wrap: every pixel off the screen is dropped
draw_pixel_no_wrap(g, fb, x_pos, y_pos) ==
    LET width == g.horizontal_resolution
        height == g.vertical_resolution
        at == y_pos * width + x_pos
    IN  IF x_pos >= width \/ y_pos >= height
        THEN [hit |-> "None", fb |-> fb]
        ELSE [hit |-> IF at \in fb THEN "true" ELSE "false",
              fb |-> flip(fb, at)]

\* GPU::draw_pixel: Some(previous value) after toggling the pixel, or None
draw_pixel(g, fb, x_pos, y_pos) ==
    LET width == g.horizontal_resolution
        height == g.vertical_resolution
        off == ~g.wrap_sprite_pixels /\ (x_pos >= width \/ y_pos >= height)
        x == IF g.wrap_sprite_pixels THEN x_pos % width ELSE x_pos
        y == IF g.wrap_sprite_pixels THEN y_pos % height ELSE y_pos
        at == y * width + x
    IN  IF off
        THEN [hit |-> "None", fb |-> fb]
        ELSE [hit |-> IF at \in fb THEN "true" ELSE "false",
              fb |-> flip(fb, at)]

\* the state of draw_byte's loop after its first n iterations: iteration j
\* has i = 8 - j and consumes bit j - 1 of the byte
RECURSIVE draw_byte_upto(_, _, _, _, _, _)
draw_byte_upto(g, fb, byte, x_pos, y_pos, n) ==
    IF n = 0
    THEN [collided |-> FALSE, fb |-> fb]
    ELSE LET before == draw_byte_upto(g, fb, byte, x_pos, y_pos, n - 1)
             i == 8 - n
             should_draw_bit == byte_bit(byte, n - 1) = 1
             r == draw_pixel(g, before.fb, x_pos + i, y_pos)
         IN  IF ~should_draw_bit
             THEN before
             ELSE [collided |-> before.collided \/ r.hit = "true", fb |-> r.fb]

\* GPU::draw_byte
draw_byte(g, fb, byte, x_pos, y_pos) == draw_byte_upto(g, fb, byte, x_pos, y_pos, 8)

\* the state of draw_sprite's loop after its first n rows
RECURSIVE draw_rows_upto(_, _, _, _, _, _)
draw_rows_upto(g, fb, sprite, x_pos, y_pos, n) ==
    IF n = 0
    THEN [collided |-> FALSE, fb |-> fb]
    ELSE LET before == draw_rows_upto(g, fb, sprite, x_pos, y_pos, n - 1)
             r == draw_byte(g, before.fb, sprite[n], x_pos, y_pos + (n - 1))
         IN  [collided |-> before.collided \/ r.collided, fb |-> r.fb]

\* GPU::draw_sprite
draw_sprite(g, fb, sprite, x_pos, y_pos) ==
    LET x == IF g.wrap_sprite_positions THEN x_pos % g.horizontal_resolution ELSE x_pos
        y == IF g.wrap_sprite_positions THEN y_pos % g.vertical_resolution ELSE y_pos
    IN  IF ~g.wrap_sprite_positions
           /\ (x_pos >= g.horizontal_resolution \/ y_pos >= g.vertical_resolution)
        THEN [collided |-> FALSE, fb |-> fb, drawn |-> FALSE, x |-> x_pos, y |-> y_pos]
        ELSE LET r == draw_rows_upto(g, fb, sprite, x, y, Len(sprite))
             IN  [collided |-> r.collided, fb |-> r.fb, drawn |-> TRUE, x |-> x, y |-> y]

SpriteBytes == {17, 128, 255}
RECURSIVE SpritesUpTo(_)
SpritesUpTo(n) ==
    IF n = 0 THEN {<<>>}
    ELSE LET shorter == SpritesUpTo(n - 1)
         IN  shorter \cup {Append(sp, b) : sp \in {t \in shorter : Len(t) = n - 1},
                                            b \in SpriteBytes}
Sprites == SpritesUpTo(MaxRows) \ {<<>>}
XPositions == {0, 62, 70}
YPositions == {0, 33}

InitGpu ==
    /\ config = [allow_stack_overflow |-> FALSE, allow_heap_overflow |-> FALSE,
                 allow_program_counter_overflow |-> FALSE,
                 use_new_jump_instruction |-> FALSE]
    /\ debug_assertions = FALSE
    /\ active = TRUE
    /\ stack = [i \in Slots |-> 0]
    /\ stack_ptr = 0
    /\ call = NoCall
    /\ pushlog = <<>>
    /\ poplog = <<>>
    /\ run_n = 0
    /\ run_sp = 0
    /\ run_active = TRUE
    /\ pc = PROGRAM_START_ADDRESS
    /\ v = [r \in Regs |-> 0]
    /\ cpu_at = "poll"
    /\ ticks = 0
    /\ last = NoLast
    /\ key_states = [k \in Keys |-> FALSE]
    /\ newest_key_state = "Finished"
    /\ newest_key = 0
    /\ fx = 0
    /\ host_keys = {}
    /\ host_at = "idle"
    /\ delay_at = "idle"
    /\ sound_at = "idle"
    /\ render_at = "idle"
    /\ hs = NoHistory
    /\ heap = NoBytes
    /\ mem = NoMem
    /\ index = 0
    /\ quirks = NoQuirks
    /\ gpu_config \in GpuConfigs
    /\ framebuffer = {}
    /\ draw = NoDraw
    /\ alu = NoAlu
    /\ delay_timer = 0
    /\ sound_timer = 0
    /\ sink = "paused"
    /\ tm = NoTimerHistory
    /\ main_at = "run_app"
    /\ exit_code = "none"
    /\ startup = StartedUp
    /\ render_queued = FALSE
    /\ present = NoPresent
    /\ limiter = NoLimiter
    /\ locks = NoLocks
    /\ ins = NoIns

\* the part of i_Dxyn_DRW_Vx_Vy_nibble after the sprite has been read:
\* v[0xF] = draw_sprite(sprite, v[x], v[y]) as u8
DrawSprite(sprite, x_pos, y_pos) ==
    LET r == draw_sprite(gpu_config, framebuffer, sprite, x_pos, y_pos)
    IN  /\ framebuffer' = r.fb
        /\ v' = [v EXCEPT ![15] = IF r.collided THEN 1 ELSE 0]
        /\ draw' = [n |-> draw.n + 1, sprite |-> sprite, x_pos |-> x_pos,
                    y_pos |-> y_pos, pre |-> framebuffer,
                    collided |-> r.collided, drawn |-> r.drawn,
                    queued_before |-> render_queued, blocked |-> FALSE]
        /\ render_queued' = IF r.drawn /\ gpu_config.render_occasion = "Changes"
                            THEN TRUE ELSE render_queued
        /\ UNCHANGED <<config, debug_assertions, gpu_config, alu, timerVars, mainVars,
                       present, limiter, locks, ins, memVars, active, stack,
                       stack_ptr, stackHist, pc, cpu_at, ticks, last, keyVars,
                       agentVars>>

Draw ==
    /\ active
    /\ draw.n < MaxDraws
    /\ \E sprite \in Sprites, x_pos \in XPositions, y_pos \in YPositions :
           DrawSprite(sprite, x_pos, y_pos)

\* GPU::clear_framebuffer, called by i_00E0_CLS
clear_framebuffer(fb) == {}

Clear ==
    /\ active
    /\ framebuffer # {}
    /\ framebuffer' = clear_framebuffer(framebuffer)
    /\ draw' = [NoDraw EXCEPT !.n = draw.n]
    /\ render_queued' = IF gpu_config.render_occasion = "Changes" THEN TRUE ELSE render_queued
    /\ UNCHANGED <<config, debug_assertions, gpu_config, alu, timerVars, mainVars,
                   present, limiter, locks, ins, memVars, active, stack,
                   stack_ptr, stackHist, cpuVars, keyVars, agentVars>>

NextGpu ==
    \/ Draw
    \/ Clear

SpecGpu == InitGpu /\ [][NextGpu]_vars

(***************************************************************************)
(* Claims about DRW.  The sprite bit in row i (0-based) and column b       *)
(* (b = 0 is bit 7) is aimed at (x' + b, y' + i), where (x', y') is the    *)
(* start position reduced modulo the resolution.                           *)
(***************************************************************************)
Width == gpu_config.horizontal_resolution
Height == gpu_config.vertical_resolution
SpriteBitSet(i, b) == byte_bit(draw.sprite[i + 1], 7 - b) = 1
SpriteBits == {ib \in (0 .. Len(draw.sprite) - 1) \X (0 .. 7) : SpriteBitSet(ib[1], ib[2])}

\* the framebuffer index the bit resolves to, or -1 when the bit is discarded
ResolvedPixel(i, b) ==
    LET px == (draw.x_pos % Width) + b
        py == (draw.y_pos % Height) + i
    IN  IF gpu_config.wrap_sprite_pixels
        THEN (py % Height) * Width + (px % Width)
        ELSE IF px < Width /\ py < Height THEN py * Width + px ELSE -1

\* a sprite was drawn by the last operation, from a start position on the screen
Drew == draw.sprite # <<>> /\ draw.drawn

\* C16: DRW reports a collision (VF = 1) exactly when at least one set sprite
\* bit resolves to a pixel that was on before the draw, at every resolution,
\* widths below 8 with wrap_sprite_pixels included.
C16_CollisionIffOverlap ==
    Drew => ((v[15] = 1) <=> \E ib \in SpriteBits : ResolvedPixel(ib[1], ib[2]) \in draw.pre)

\* the set sprite bits that resolve to the pixel p
BitsOnto(p) == {ib \in SpriteBits : ResolvedPixel(ib[1], ib[2]) = p}
Pixels == 0 .. (Width * Height - 1)

\* the pixels of the screen that an odd number of set sprite bits resolves to
Toggled ==
    {p \in {ResolvedPixel(ib[1], ib[2]) : ib \in SpriteBits} \cap Pixels :
        Cardinality(BitsOnto(p)) % 2 = 1}

\* every pixel is its previous value XOR the sprite bits mapped onto it
XorOfSprite == (draw.pre \ Toggled) \cup (Toggled \ draw.pre)

\* the step draws once more what the last operation drew, at the same position
DrawsSameAgain ==
    /\ Drew
    /\ draw'.n = draw.n + 1
    /\ draw'.sprite = draw.sprite
    /\ draw'.x_pos = draw.x_pos
    /\ draw'.y_pos = draw.y_pos

\* C17: after a DRW every framebuffer pixel is its previous value XOR the sprite
\* bit mapped onto it (bit 7 of row i at column x', bit 0 at x' + 7, row i at
\* y' + i; off-screen pixels wrap modulo the resolution with wrap_sprite_pixels
\* and are discarded without it), the framebuffer keeps its W*H pixels, and
\* drawing the same sprite again at the same position restores the framebuffer.
C17_DrawIsXor ==
    [][/\ (draw'.n = draw.n + 1 /\ Drew') => (framebuffer' = XorOfSprite' /\ framebuffer' \subseteq Pixels')
       /\ DrawsSameAgain => framebuffer' = draw.pre]_vars

\* a sprite with wrapped, discarded or doubly hit pixels was drawn twice and the
\* second draw gave back the framebuffer the first one started from
C17_Witness ==
    /\ Drew
    /\ draw.n = 2
    /\ draw.pre # {}
    /\ draw.pre = draw_sprite(gpu_config, {}, draw.sprite, draw.x_pos, draw.y_pos).fb
    /\ framebuffer = {}
    /\ \E ib \in SpriteBits : (draw.x_pos % Width) + ib[2] >= Width

(***************************************************************************)
(* The register-to-register instructions 8xyN (instructions.rs).           *)
(***************************************************************************)
\* a | b, a & b and a ^ b on u8, bit by bit
RECURSIVE bitwise(_, _, _, _)
bitwise(f, a, b, n) ==
    IF n = 0 THEN 0
    ELSE LET k == n - 1
             ba == byte_bit(a, k)
             bb == byte_bit(b, k)
             bit == CASE f = "or" -> IF ba + bb > 0 THEN 1 ELSE 0
                      [] f = "and" -> ba * bb
                      [] f = "xor" -> (ba + bb) % 2
         IN  bit * (2 ^ k) + bitwise(f, a, b, k)

i_8xy1_OR_Vx_Vy(m, op) ==
    [m EXCEPT !.v[get_x(op)] = bitwise("or", m.v[get_x(op)], m.v[get_y(op)], 8)]

i_8xy2_AND_Vx_Vy(m, op) ==
    [m EXCEPT !.v[get_x(op)] = bitwise("and", m.v[get_x(op)], m.v[get_y(op)], 8)]

i_8xy3_XOR_Vx_Vy(m, op) ==
    [m EXCEPT !.v[get_x(op)] = bitwise("xor", m.v[get_x(op)], m.v[get_y(op)], 8)]

\* v[x] = val, then v[0xF] = flag
set_result_then_flag(m, x, val, flag) ==
    LET v1 == [m.v EXCEPT ![x] = val]
    IN  [m EXCEPT !.v = [v1 EXCEPT ![15] = flag]]

i_8xy4_ADD_Vx_Vy(m, op) ==
    LET x == get_x(op)
        y == get_y(op)
        val == (m.v[x] + m.v[y]) % 256
        wrapped == m.v[x] + m.v[y] > 255
    IN  set_result_then_flag(m, x, val, IF wrapped THEN 1 ELSE 0)

\* SUB whose flag is the borrow instead of its negation
i_8xy5_SUB_Vx_Vy_borrow_flag(m, op) ==
    LET x == get_x(op)
        y == get_y(op)
        val == (m.v[x] + 256 - m.v[y]) % 256
        wrapped == m.v[x] < m.v[y]
    IN  set_result_then_flag(m, x, val, IF wrapped THEN 1 ELSE 0)

i_8xy5_SUB_Vx_Vy(m, op) ==
    LET x == get_x(op)
        y == get_y(op)
        val == (m.v[x] + 256 - m.v[y]) % 256
        wrapped == m.v[x] < m.v[y]
    IN  set_result_then_flag(m, x, val, IF ~wrapped THEN 1 ELSE 0)

i_8xy7_SUBN_Vx_Vy(m, op) ==
    LET x == get_x(op)
        y == get_y(op)
        val == (m.v[y] + 256 - m.v[x]) % 256
        wrapped == m.v[y] < m.v[x]
    IN  set_result_then_flag(m, x, val, IF ~wrapped THEN 1 ELSE 0)

\* SHR that shifts Vx whatever the switch says
i_8xy6_SHR_Vx_in_place(m, op) ==
    LET x == get_x(op)
        v_used == m.v[x]
    IN  set_result_then_flag(m, x, v_used \div 2, v_used % 2)

i_8xy6_SHR_Vx(m, op) ==
    LET x == get_x(op)
        y == get_y(op)
        v_used == IF quirks.use_new_shift_instruction THEN m.v[x] ELSE m.v[y]
    IN  set_result_then_flag(m, x, v_used \div 2, v_used % 2)

i_8xyE_SHL_Vx(m, op) ==
    LET x == get_x(op)
        y == get_y(op)
        v_used == IF quirks.use_new_shift_instruction THEN m.v[x] ELSE m.v[y]
    IN  set_result_then_flag(m, x, (v_used * 2) % 256, (v_used % 256) \div 128)

\* CPU::execute_instruction for the 8xyN handlers and the register load
execute_alu_instruction(fn, m, op) ==
    CASE fn = "i_6xkk_LD_Vx_byte" -> i_6xkk_LD_Vx_byte(m, op)
      [] fn = "i_8xy1_OR_Vx_Vy" -> i_8xy1_OR_Vx_Vy(m, op)
      [] fn = "i_8xy2_AND_Vx_Vy" -> i_8xy2_AND_Vx_Vy(m, op)
      [] fn = "i_8xy3_XOR_Vx_Vy" -> i_8xy3_XOR_Vx_Vy(m, op)
      [] fn = "i_8xy4_ADD_Vx_Vy" -> i_8xy4_ADD_Vx_Vy(m, op)
      [] fn = "i_8xy5_SUB_Vx_Vy" -> i_8xy5_SUB_Vx_Vy(m, op)
      [] fn = "i_8xy6_SHR_Vx" -> i_8xy6_SHR_Vx(m, op)
      [] fn = "i_8xy7_SUBN_Vx_Vy" -> i_8xy7_SUBN_Vx_Vy(m, op)
      [] fn = "i_8xyE_SHL_Vx" -> i_8xyE_SHL_Vx(m, op)

\* the register pairs xy of the programs: V0 with V1, VF as x, VF as y,
\* V0 with itself, VF with itself
AluPairs == {1, 240, 15, 0, 255}
\* 8xyN for N in 1 .. 7 and E
AluOps == {1, 2, 3, 4, 5, 6, 7, 14}
\* 60FF, 6181, 6F80 and the 8xyN opcodes over AluPairs
AluWords == {24831, 24961, 28544} \cup {32768 + xy * 16 + nn : xy \in AluPairs, nn \in AluOps}

\* CPU::run, an iteration that fetches the opcode w and executes its handler fn
AluTick(fn, w) ==
    /\ cpu_at = "fetch"
    /\ LET f == fetch_instruction(Machine)
           op == from_u8s(w \div 256, w % 256)
       IN /\ f.ok
          /\ get_instruction_function(op) = fn
          /\ LET m == execute_alu_instruction(fn, f.m, op)
             IN /\ Commit(m)
                /\ cpu_at' = "poll"
                /\ alu' = [fn |-> fn, x |-> get_x(op), y |-> get_y(op), pre_v |-> v]
                /\ last' = [kind |-> "tick", fetch_pc |-> pc,
                            read |-> f.read, pre_active |-> active,
                            mid_pc |-> f.m.pc, mid_active |-> f.m.active,
                            skip |-> m.skip]
    /\ UNCHANGED <<config, debug_assertions, gpuVars, timerVars, mainVars, syncVars, ins, memVars, stackHist, ticks,
                   keyVars, agentVars>>

AluStep(fn) == \E w \in AluWords : AluTick(fn, w)

Alu_6xkk_LD_Vx_byte ==
    /\ cpu_at = "fetch"
    /\ AluStep("i_6xkk_LD_Vx_byte")

Alu_8xy1_OR_Vx_Vy ==
    /\ cpu_at = "fetch"
    /\ AluStep("i_8xy1_OR_Vx_Vy")

Alu_8xy2_AND_Vx_Vy ==
    /\ cpu_at = "fetch"
    /\ AluStep("i_8xy2_AND_Vx_Vy")

Alu_8xy3_XOR_Vx_Vy ==
    /\ cpu_at = "fetch"
    /\ AluStep("i_8xy3_XOR_Vx_Vy")

Alu_8xy4_ADD_Vx_Vy ==
    /\ cpu_at = "fetch"
    /\ AluStep("i_8xy4_ADD_Vx_Vy")

Alu_8xy5_SUB_Vx_Vy ==
    /\ cpu_at = "fetch"
    /\ AluStep("i_8xy5_SUB_Vx_Vy")

Alu_8xy6_SHR_Vx ==
    /\ cpu_at = "fetch"
    /\ AluStep("i_8xy6_SHR_Vx")

Alu_8xy7_SUBN_Vx_Vy ==
    /\ cpu_at = "fetch"
    /\ AluStep("i_8xy7_SUBN_Vx_Vy")

Alu_8xyE_SHL_Vx ==
    /\ cpu_at = "fetch"
    /\ AluStep("i_8xyE_SHL_Vx")

\* the machine after CPU::try_new, the CPU thread started
InitAlu ==
    /\ config = [allow_stack_overflow |-> FALSE, allow_heap_overflow |-> FALSE,
                 allow_program_counter_overflow |-> FALSE,
                 use_new_jump_instruction |-> FALSE]
    /\ debug_assertions = FALSE
    /\ active = TRUE
    /\ stack = [i \in Slots |-> 0]
    /\ stack_ptr = 0
    /\ call = NoCall
    /\ pushlog = <<>>
    /\ poplog = <<>>
    /\ run_n = 0
    /\ run_sp = 0
    /\ run_active = TRUE
    /\ pc = PROGRAM_START_ADDRESS
    /\ v = [r \in Regs |-> 0]
    /\ cpu_at = "poll"
    /\ ticks = 0
    /\ last = NoLast
    /\ key_states = [k \in Keys |-> FALSE]
    /\ newest_key_state = "Finished"
    /\ newest_key = 0
    /\ fx = 0
    /\ host_keys = {}
    /\ host_at = "idle"
    /\ delay_at = "idle"
    /\ sound_at = "idle"
    /\ render_at = "idle"
    /\ hs = NoHistory
    /\ heap = NoBytes
    /\ mem = NoMem
    /\ index = 0
    /\ quirks \in {q \in Quirks : /\ ~q.allow_index_register_overflow
                                /\ ~q.set_flag_for_index_overflow
                                /\ ~q.move_index_with_reads
                                /\ ~q.limit_to_one_draw_per_frame}
    /\ gpu_config = DefaultGpuConfig
    /\ framebuffer = {}
    /\ draw = NoDraw
    /\ alu = NoAlu
    /\ delay_timer = 0
    /\ sound_timer = 0
    /\ sink = "paused"
    /\ tm = NoTimerHistory
    /\ main_at = "run_app"
    /\ exit_code = "none"
    /\ startup = StartedUp
    /\ render_queued = FALSE
    /\ present = NoPresent
    /\ limiter = NoLimiter
    /\ locks = NoLocks
    /\ ins = NoIns

NextAlu ==
    \/ CpuPoll
    \/ Alu_6xkk_LD_Vx_byte
    \/ Alu_8xy1_OR_Vx_Vy
    \/ Alu_8xy2_AND_Vx_Vy
    \/ Alu_8xy3_XOR_Vx_Vy
    \/ Alu_8xy4_ADD_Vx_Vy
    \/ Alu_8xy5_SUB_Vx_Vy
    \/ Alu_8xy6_SHR_Vx
    \/ Alu_8xy7_SUBN_Vx_Vy
    \/ Alu_8xyE_SHL_Vx

SpecAlu == InitAlu /\ [][NextAlu]_vars

\* the last instruction was fn and the CPU is back at the top of its loop
AluDid(fn) == alu.fn = fn /\ cpu_at = "poll"
PreVx == alu.pre_v[alu.x]
PreVy == alu.pre_v[alu.y]

\* Vx holds val unless x is 0xF, and VF holds flag: the flag is written last
ResultAndFlag(val, flag) ==
    /\ v[15] = flag
    /\ alu.x # 15 => v[alu.x] = val

\* C18: 8xy4 sets Vx to (Vx + Vy) mod 256 and VF to the carry; 8xy5 sets Vx to
\* (Vx - Vy) mod 256 and 8xy7 to (Vy - Vx) mod 256, each with VF = 1 exactly
\* when the minuend was at least the subtrahend; the flag comes from the
\* values before the instruction and is written after Vx, so with x = 0xF the
\* final VF is the flag.
C18_AddSubFlags ==
    /\ AluDid("i_8xy4_ADD_Vx_Vy") =>
           ResultAndFlag((PreVx + PreVy) % 256, IF PreVx + PreVy > 255 THEN 1 ELSE 0)
    /\ AluDid("i_8xy5_SUB_Vx_Vy") =>
           ResultAndFlag((PreVx + 256 - PreVy) % 256, IF PreVx >= PreVy THEN 1 ELSE 0)
    /\ AluDid("i_8xy7_SUBN_Vx_Vy") =>
           ResultAndFlag((PreVy + 256 - PreVx) % 256, IF PreVy >= PreVx THEN 1 ELSE 0)

\* a subtraction into VF that borrowed: the result was overwritten by the flag 0
C18_Witness ==
    /\ AluDid("i_8xy5_SUB_Vx_Vy")
    /\ alu.x = 15
    /\ PreVx < PreVy
    /\ (PreVx + 256 - PreVy) % 256 # 0
    /\ v[15] = 0

\* the value the shift instructions take as their source
ShiftSource == IF quirks.use_new_shift_instruction THEN PreVx ELSE PreVy

\* C19: 8xy6 and 8xyE shift Vx when use_new_shift_instruction is on and Vy when
\* it is off; 8xy6 leaves Vx = source >> 1 and VF = source & 1, 8xyE leaves
\* Vx = (source << 1) mod 256 and VF = bit 7 of the source; VF is written last,
\* so with x = 0xF the final VF is the bit shifted out.
C19_ShiftSourceAndFlag ==
    /\ AluDid("i_8xy6_SHR_Vx") => ResultAndFlag(ShiftSource \div 2, ShiftSource % 2)
    /\ AluDid("i_8xyE_SHL_Vx") =>
           ResultAndFlag((ShiftSource * 2) % 256, (ShiftSource \div 128) % 2)

\* with the switch off, a right shift took Vy, which differed from Vx, and
\* shifted a 1 out of it
C19_Witness ==
    /\ AluDid("i_8xy6_SHR_Vx")
    /\ ~quirks.use_new_shift_instruction
    /\ alu.x # 15
    /\ PreVy # PreVx
    /\ PreVy \div 2 # PreVx \div 2
    /\ v[alu.x] = PreVy \div 2
    /\ v[15] = 1

\* what 8xy1, 8xy2 and 8xy3 are to leave behind, for the bitwise operation f
BitwiseAsClaimed(f) ==
    IF quirks.reset_flag_for_bitwise_operations
    THEN ResultAndFlag(bitwise(f, PreVx, PreVy, 8), 0)
    ELSE alu.x # 15 => v[15] = alu.pre_v[15]

\* C20: with reset_flag_for_bitwise_operations on, after 8xy1 (OR), 8xy2 (AND)
\* and 8xy3 (XOR) VF is 0 and, for x other than 0xF, Vx holds the bitwise
\* result; with it off these instructions leave VF unchanged.
C20_BitwiseResetsFlag ==
    /\ AluDid("i_8xy1_OR_Vx_Vy") => BitwiseAsClaimed("or")
    /\ AluDid("i_8xy2_AND_Vx_Vy") => BitwiseAsClaimed("and")
    /\ AluDid("i_8xy3_XOR_Vx_Vy") => BitwiseAsClaimed("xor")

(***************************************************************************)
(* The timers (timer.rs) and the instructions that use them.               *)
(***************************************************************************)
MaxTimerTicks == 4

\* a tick that subtracts 1 as u8 arithmetic does, with no test for 0
timer_tick_wrapping(value) == (value + 255) % 256

\* the closure of fetch_update in DelayTimer::run and SoundTimer::run
timer_tick(value) == IF value > 0 THEN value - 1 ELSE value

i_Fx07_LD_Vx_DT(m, op) == [m EXCEPT !.v[get_x(op)] = m.delay_timer]

i_Fx15_LD_DT_Vx(m, op) == [m EXCEPT !.delay_timer = m.v[get_x(op)]]

i_Fx18_LD_ST_Vx(m, op) == [m EXCEPT !.sound_timer = m.v[get_x(op)]]

\* CPU::execute_instruction for the handlers that use the timers
execute_timer_instruction(fn, m, op) ==
    CASE fn = "i_6xkk_LD_Vx_byte" -> i_6xkk_LD_Vx_byte(m, op)
      [] fn = "i_Fx07_LD_Vx_DT" -> i_Fx07_LD_Vx_DT(m, op)
      [] fn = "i_Fx15_LD_DT_Vx" -> i_Fx15_LD_DT_Vx(m, op)
      [] fn = "i_Fx18_LD_ST_Vx" -> i_Fx18_LD_ST_Vx(m, op)

\* 6002, 6003, 61FF, F007, F015, F018, F115
TimerWords == {24578, 24579, 25087, 61447, 61461, 61464, 61717}

\* the history after the handler fn: a store starts a new count of ticks
TimerHistoryAfter(fn, val) ==
    CASE fn = "i_Fx15_LD_DT_Vx" -> [tm EXCEPT !.delay_set = val, !.delay_ticks = 0]
      [] fn = "i_Fx18_LD_ST_Vx" -> [tm EXCEPT !.sound_set = val, !.sound_ticks = 0]
      [] OTHER -> tm

\* CPU::run, an iteration that fetches the opcode w and executes its handler fn
TimerCpuTick(fn, w) ==
    /\ cpu_at = "fetch"
    /\ LET f == fetch_instruction(Machine)
           op == from_u8s(w \div 256, w % 256)
       IN /\ f.ok
          /\ get_instruction_function(op) = fn
          /\ LET m == execute_timer_instruction(fn, f.m, op)
             IN /\ Commit(m)
                /\ delay_timer' = m.delay_timer
                /\ sound_timer' = m.sound_timer
                /\ tm' = TimerHistoryAfter(fn, v[get_x(op)])
                /\ cpu_at' = "poll"
                /\ last' = [kind |-> "tick", fetch_pc |-> pc,
                            read |-> f.read, pre_active |-> active,
                            mid_pc |-> f.m.pc, mid_active |-> f.m.active,
                            skip |-> m.skip]
    /\ UNCHANGED <<config, debug_assertions, gpuVars, alu, sink, mainVars, syncVars, ins, memVars,
                   stackHist, ticks, keyVars, agentVars>>

TimerCpuStep(fn) == \E w \in TimerWords : TimerCpuTick(fn, w)

Timer_6xkk_LD_Vx_byte ==
    /\ cpu_at = "fetch"
    /\ TimerCpuStep("i_6xkk_LD_Vx_byte")

Timer_Fx07_LD_Vx_DT ==
    /\ cpu_at = "fetch"
    /\ TimerCpuStep("i_Fx07_LD_Vx_DT")

Timer_Fx15_LD_DT_Vx ==
    /\ cpu_at = "fetch"
    /\ TimerCpuStep("i_Fx15_LD_DT_Vx")

Timer_Fx18_LD_ST_Vx ==
    /\ cpu_at = "fetch"
    /\ TimerCpuStep("i_Fx18_LD_ST_Vx")

\* DelayTimer::run, one iteration of the loop
DelayTimerTick ==
    /\ delay_at = "running"
    /\ active
    /\ tm.delay_ticks < MaxTimerTicks
    /\ delay_timer' = timer_tick(delay_timer)
    /\ tm' = [tm EXCEPT !.delay_ticks = @ + 1]
    /\ UNCHANGED <<config, debug_assertions, gpuVars, alu, sound_timer, sink, mainVars, syncVars, ins,
                   memVars, active, stack, stack_ptr, stackHist, cpuVars, keyVars,
                   agentVars>>

\* SoundTimer::run, the first half of an iteration: the decrement
SoundTimerTick ==
    /\ sound_at = "running"
    /\ active
    /\ tm.sound_ticks < MaxTimerTicks
    /\ sound_timer' = timer_tick(sound_timer)
    /\ tm' = [tm EXCEPT !.sound_ticks = @ + 1]
    /\ sound_at' = "ticked"
    /\ UNCHANGED <<config, debug_assertions, gpuVars, alu, delay_timer, sink, mainVars, syncVars, ins,
                   memVars, active, stack, stack_ptr, stackHist, cpuVars, keyVars,
                   host_at, delay_at, render_at>>

\* a sink that plays whatever the register holds
tone_always(value) == "playing"

\* if value > 0 { sink.play() } else { sink.pause() }
tone(value) == IF value > 0 THEN "playing" ELSE "paused"

\* SoundTimer::run, the second half: the register is read again and the tone
\* is switched on or off
SoundTimerSink ==
    /\ sound_at = "ticked"
    /\ sink' = tone(sound_timer)
    /\ tm' = [tm EXCEPT !.sound_ended = TRUE, !.sound_read = sound_timer]
    /\ sound_at' = "running"
    /\ UNCHANGED <<config, debug_assertions, gpuVars, alu, delay_timer, sound_timer,
                   mainVars, syncVars, ins, memVars, active, stack, stack_ptr, stackHist, cpuVars,
                   keyVars, host_at, delay_at, render_at>>

\* the window is closed: the event loop stores false in active and ends
WindowClose ==
    /\ host_at = "running"
    /\ about_to_wait(TRUE, [pressed |-> {}, released |-> {}])

\* main after the threads are spawned and the event loop runs
InitTimer ==
    /\ config = [allow_stack_overflow |-> FALSE, allow_heap_overflow |-> FALSE,
                 allow_program_counter_overflow |-> FALSE,
                 use_new_jump_instruction |-> FALSE]
    /\ debug_assertions = FALSE
    /\ active = TRUE
    /\ stack = [i \in Slots |-> 0]
    /\ stack_ptr = 0
    /\ call = NoCall
    /\ pushlog = <<>>
    /\ poplog = <<>>
    /\ run_n = 0
    /\ run_sp = 0
    /\ run_active = TRUE
    /\ pc = PROGRAM_START_ADDRESS
    /\ v = [r \in Regs |-> 0]
    /\ cpu_at = "poll"
    /\ ticks = 0
    /\ last = NoLast
    /\ key_states = [k \in Keys |-> FALSE]
    /\ newest_key_state = "Finished"
    /\ newest_key = 0
    /\ fx = 0
    /\ host_keys = {}
    /\ host_at = "running"
    /\ delay_at = "running"
    /\ sound_at = "running"
    /\ render_at = "not_spawned"
    /\ hs = NoHistory
    /\ heap = NoBytes
    /\ mem = NoMem
    /\ index = 0
    /\ quirks = NoQuirks
    /\ gpu_config = DefaultGpuConfig
    /\ framebuffer = {}
    /\ draw = NoDraw
    /\ alu = NoAlu
    /\ delay_timer = 0
    /\ sound_timer = 0
    /\ sink = "paused"
    /\ tm = NoTimerHistory
    /\ main_at = "run_app"
    /\ exit_code = "none"
    /\ startup = StartedUp
    /\ render_queued = FALSE
    /\ present = NoPresent
    /\ limiter = NoLimiter
    /\ locks = NoLocks
    /\ ins = NoIns

NextTimer ==
    \/ CpuPoll
    \/ Timer_6xkk_LD_Vx_byte
    \/ Timer_Fx07_LD_Vx_DT
    \/ Timer_Fx15_LD_DT_Vx
    \/ Timer_Fx18_LD_ST_Vx
    \/ DelayTimerTick
    \/ SoundTimerTick
    \/ SoundTimerSink
    \/ WindowClose
    \/ DelayTimerReturn
    \/ SoundTimerReturn

SpecTimer == InitTimer /\ [][NextTimer]_vars

\* v less k ticks, and 0 from the v-th tick on
CountedDown(val, k) == IF val > k THEN val - k ELSE 0

\* C21: after a timer register is set to v and not set again, each tick of
\* that timer lowers it by exactly 1 until it is 0 after v ticks, and every
\* later tick leaves it at 0; it never wraps from 0 to 255.
C21_TimerCountsDown ==
    /\ delay_timer = CountedDown(tm.delay_set, tm.delay_ticks)
    /\ sound_timer = CountedDown(tm.sound_set, tm.sound_ticks)

\* the delay timer was set to 2 and has ticked four times: down to 0 in two
\* ticks, at 0 for two more
C21_Witness ==
    /\ tm.delay_set = 2
    /\ tm.delay_ticks = 4
    /\ delay_timer = 0

\* C33: at the end of every tick of the sound timer the tone is on iff the
\* register read after that tick's decrement is greater than 0; hence once
\* the register has reached 0 and is not set again, the tone is off after the
\* next tick and stays off until the CPU sets a non-zero value.
C33_ToneFollowsRegister ==
    /\ tm.sound_ended => (sink = "playing" <=> tm.sound_read > 0)
    /\ (sound_at = "running" /\ tm.sound_ticks >= 1) =>
           /\ tm.sound_read = sound_timer
           /\ tm.sound_ticks >= tm.sound_set => sink = "paused"

\* the sound timer was set to 2 and has ended three ticks: the tone was on
\* after the first, and is off after the second and the third
C33_Witness ==
    /\ tm.sound_set = 2
    /\ tm.sound_ticks = 3
    /\ sound_at = "running"
    /\ sound_timer = 0
    /\ sink = "paused"

(***************************************************************************)
(* Claims about the instructions that use I and the heap, on SpecMem.      *)
(***************************************************************************)
\* the last instruction was fn and the CPU is back at the top of its loop
InsDid(fn) == ins.fn = fn /\ cpu_at = "poll"
InsX == get_x(ins.op)

\* the heap differs from h at most at the addresses in the set changed
SameHeapExcept(h, changed) ==
    \A a \in (DOMAIN heap \cup DOMAIN h) \ changed : heap_byte(heap, a) = heap_byte(h, a)

\* Fx65 with x >= 2 has just run, right after an Fx33 at the same I
BcdRoundTrip ==
    /\ InsDid("i_Fx65_LD_Vx_I")
    /\ InsX >= 2
    /\ ins.before.fn = "i_Fx33_LD_B_Vx"
    /\ ins.index = ins.before.index

\* the value Fx33 converted
BcdValue == ins.before.v[get_x(ins.before.op)]

BcdDigitsLoaded ==
    /\ v[0] = BcdValue \div 100
    /\ v[1] = (BcdValue \div 10) % 10
    /\ v[2] = BcdValue % 10
    /\ 100 * v[0] + 10 * v[1] + v[2] = BcdValue

BcdWritesThreeBytes ==
    (InsDid("i_Fx33_LD_B_Vx") /\ ins.index + 2 <= 4095) =>
        SameHeapExcept(ins.heap, {ins.index, ins.index + 1, ins.index + 2})

\* C22 as stated: for every Vx and every I with I + 2 <= 0xFFF, Fx33 and then
\* Fx65 with x >= 2 at the same I gives V0 = v / 100, V1 = (v / 10) mod 10,
\* V2 = v mod 10, and Fx33 changes only the bytes at I, I + 1, I + 2.
C22_BcdRoundTrip ==
    /\ (BcdRoundTrip /\ ins.index + 2 <= 4095) => BcdDigitsLoaded
    /\ BcdWritesThreeBytes

\* C22, amended: the same for every I with I + x <= 0xFFF, x being the operand
\* of the Fx65, or with heap overflow allowed.
C22_BcdRoundTripInHeap ==
    /\ (BcdRoundTrip /\ ins.index + 2 <= 4095
        /\ (ins.index + InsX <= 4095 \/ config.allow_heap_overflow)) => BcdDigitsLoaded
    /\ BcdWritesThreeBytes

\* 156 was converted at I = 0xFFD and read back as 1, 5, 6
C22_Witness ==
    /\ BcdRoundTrip
    /\ ins.index = 4093
    /\ BcdValue = 156
    /\ v[0] = 1 /\ v[1] = 5 /\ v[2] = 6

\* the addresses I .. I + x of the last instruction, all inside the heap
InsRange == ins.index .. (ins.index + InsX)
InsRangeInHeap == ins.index + InsX <= 4095

\* I after Fx55 and Fx65: I + x with move_index_with_reads, else unchanged
IndexAsClaimed == index = IF quirks.move_index_with_reads THEN ins.index + InsX ELSE ins.index

FarIndex == 4095 + 240 * 255
FarIndexSteps == 243

\* the machine after that program, the CPU at the top of its loop
InitIdx ==
    /\ config = [allow_stack_overflow |-> FALSE, allow_heap_overflow |-> FALSE,
                 allow_program_counter_overflow |-> FALSE,
                 use_new_jump_instruction |-> FALSE]
    /\ debug_assertions = FALSE
    /\ active = TRUE
    /\ stack = [i \in Slots |-> 0]
    /\ stack_ptr = 0
    /\ call = NoCall
    /\ pushlog = <<>>
    /\ poplog = <<>>
    /\ run_n = 0
    /\ run_sp = 0
    /\ run_active = TRUE
    /\ pc = PROGRAM_START_ADDRESS + 2 * FarIndexSteps
    /\ \E vf \in {0, 1} : v = [r \in Regs |-> IF r = 0 THEN 255 ELSE IF r = 15 THEN vf ELSE 0]
    /\ cpu_at = "poll"
    /\ ticks = 0
    /\ last = NoLast
    /\ key_states = [k \in Keys |-> FALSE]
    /\ newest_key_state = "Finished"
    /\ newest_key = 0
    /\ fx = 0
    /\ host_keys = {}
    /\ host_at = "idle"
    /\ delay_at = "idle"
    /\ sound_at = "idle"
    /\ render_at = "idle"
    /\ hs = NoHistory
    /\ heap = NoBytes
    /\ mem = NoMem
    /\ index = FarIndex
    /\ quirks \in {q \in Quirks : /\ ~q.use_new_shift_instruction
                                /\ ~q.reset_flag_for_bitwise_operations
                                /\ ~q.limit_to_one_draw_per_frame}
    /\ gpu_config = DefaultGpuConfig
    /\ framebuffer = {}
    /\ draw = NoDraw
    /\ alu = NoAlu
    /\ delay_timer = 0
    /\ sound_timer = 0
    /\ sink = "paused"
    /\ tm = NoTimerHistory
    /\ main_at = "run_app"
    /\ exit_code = "none"
    /\ startup = StartedUp
    /\ render_queued = FALSE
    /\ present = NoPresent
    /\ limiter = NoLimiter
    /\ locks = NoLocks
    /\ ins = NoIns

SpecIdx == InitIdx /\ [][NextMem]_vars

\* I + Vx of the last instruction, before any wrap
IndexSum == ins.index + ins.v[InsX]

\* C24: Fx1E sets I to I + Vx; with set_flag_for_index_overflow on, VF becomes
\* 1 whenever the sum exceeds 0xFFF, also when it passes 0xFFFF and wraps under
\* allow_index_register_overflow; when the sum exceeds 0xFFFF and the overflow
\* is not allowed, active is cleared and I and VF are unchanged.
C24_IndexAddFlag ==
    InsDid("i_Fx1E_ADD_I_Vx") =>
        IF IndexSum > 65535 /\ ~quirks.allow_index_register_overflow
        THEN ~active /\ index = ins.index /\ v[15] = ins.v[15]
        ELSE /\ index = IndexSum % 65536
             /\ (quirks.set_flag_for_index_overflow /\ IndexSum > 4095) => v[15] = 1

(***************************************************************************)
(* The key instructions Ex9E and ExA1 (instructions.rs, input.rs).         *)
(***************************************************************************)
\* InputManager::get_key_state: key_states has 16 entries, so an index above
\* 0xF ends in the explicit panic! of a checked build or in the bounds check of
\* the array in any build
get_key_state(ks, key_index) ==
    IF key_index > 15
    THEN [ok |-> FALSE, down |-> FALSE]
    ELSE [ok |-> TRUE, down |-> ks[key_index]]

i_Ex9E_SKP_Vx(m, op) ==
    LET k == get_key_state(key_states, m.v[get_x(op)])
    IN  IF ~k.ok THEN [m EXCEPT !.fault = "panic"]
        ELSE IF k.down THEN increment_pc(m) ELSE m

i_ExA1_SKNP_Vx(m, op) ==
    LET k == get_key_state(key_states, m.v[get_x(op)])
    IN  IF ~k.ok THEN [m EXCEPT !.fault = "panic"]
        ELSE IF ~k.down THEN increment_pc(m) ELSE m

\* CPU::execute_instruction for the key handlers and the register load
execute_key_instruction(fn, m, op) ==
    CASE fn = "i_6xkk_LD_Vx_byte" -> i_6xkk_LD_Vx_byte(m, op)
      [] fn = "i_Ex9E_SKP_Vx" -> i_Ex9E_SKP_Vx(m, op)
      [] fn = "i_ExA1_SKNP_Vx" -> i_ExA1_SKNP_Vx(m, op)

\* 6001, 6011, 600F, E09E, E0A1
SkipWords == {24577, 24593, 24591, 57502, 57505}

\* CPU::run, an iteration that fetches the opcode w and executes its handler fn
SkipTick(fn, w) ==
    /\ cpu_at = "fetch"
    /\ LET f == fetch_instruction(Machine)
           op == from_u8s(w \div 256, w % 256)
       IN /\ f.ok
          /\ get_instruction_function(op) = fn
          /\ LET m == execute_key_instruction(fn, f.m, op)
             IN /\ Commit(m)
                /\ cpu_at' = IF m.fault = "panic" THEN "panicked" ELSE "poll"
                /\ ins' = InsAfter(fn, op)
                /\ last' = [kind |-> "tick", fetch_pc |-> pc,
                            read |-> f.read, pre_active |-> active,
                            mid_pc |-> f.m.pc, mid_active |-> f.m.active,
                            skip |-> m.skip]
    /\ UNCHANGED <<config, debug_assertions, gpuVars, alu, timerVars, mainVars, syncVars, memVars,
                   stackHist, ticks, keyVars, agentVars>>

SkipStep(fn) == \E w \in SkipWords : SkipTick(fn, w)

Skip_6xkk_LD_Vx_byte ==
    /\ cpu_at = "fetch"
    /\ SkipStep("i_6xkk_LD_Vx_byte")

Skip_Ex9E_SKP_Vx ==
    /\ cpu_at = "fetch"
    /\ SkipStep("i_Ex9E_SKP_Vx")

Skip_ExA1_SKNP_Vx ==
    /\ cpu_at = "fetch"
    /\ SkipStep("i_ExA1_SKNP_Vx")

NextSkip ==
    \/ CpuPoll
    \/ Skip_6xkk_LD_Vx_byte
    \/ Skip_Ex9E_SKP_Vx
    \/ Skip_ExA1_SKNP_Vx
    \/ HostStep

\* main after the threads are spawned and the event loop runs
SpecSkip == InitTimer /\ [][NextSkip]_vars

\* Ex9E or ExA1 was the last instruction, finished or unwound
KeySkipDid(fn) == ins.fn = fn /\ cpu_at \in {"poll", "panicked"}

\* the key the instruction is to test: the low nibble of Vx
KeyTested == ins.key_states[ins.v[InsX] % 16]

\* PC after the instruction: past the next one when it skipped
SkippedIff(cond) == pc = IF cond THEN ins.pc + 4 ELSE ins.pc + 2

\* C25: for every value of Vx, Ex9E skips the next instruction iff
\* key[Vx & 0xF] is down and ExA1 skips iff it is up; only the low nibble of Vx
\* selects the key and no value of Vx makes the instruction fail.
C25_KeySkipLowNibble ==
    /\ KeySkipDid("i_Ex9E_SKP_Vx") => (cpu_at = "poll" /\ SkippedIff(KeyTested))
    /\ KeySkipDid("i_ExA1_SKNP_Vx") => (cpu_at = "poll" /\ SkippedIff(~KeyTested))

(***************************************************************************)
(* Opcodes without a handler (cpu.rs, CPU::run).                           *)
(***************************************************************************)
\* an unknown opcode that stops the machine
halt_on_unknown(m) == [m EXCEPT !.active = FALSE]

\* decode_instruction returned None: the loop continues with the machine as
\* the fetch left it
skip_unknown(m) == m

\* 0000 0123, 5011, 9011, 8018 801D 801F, E000 E09F, F000 F0FF
UnknownWords == {0, 291, 20497, 36881, 32792, 32797, 32799, 57344, 57503, 61440, 61695}

\* CPU::run, an iteration that fetches an opcode w that has no handler
UnknownTick(w) ==
    /\ cpu_at = "fetch"
    /\ LET f == fetch_instruction(Machine)
           op == from_u8s(w \div 256, w % 256)
       IN /\ f.ok
          /\ get_instruction_function(op) = "none"
          /\ LET m == skip_unknown(f.m)
             IN /\ Commit(m)
                /\ cpu_at' = "poll"
                /\ ins' = InsAfter("none", op)
                /\ last' = [kind |-> "tick", fetch_pc |-> pc,
                            read |-> f.read, pre_active |-> active,
                            mid_pc |-> f.m.pc, mid_active |-> f.m.active,
                            skip |-> m.skip]
    /\ UNCHANGED <<config, debug_assertions, gpuVars, alu, timerVars, mainVars, syncVars, memVars,
                   stackHist, ticks, keyVars, agentVars>>

Unknown_none ==
    /\ cpu_at = "fetch"
    /\ \E w \in UnknownWords : UnknownTick(w)

NextUnknown ==
    \/ CpuPoll
    \/ Unknown_none
    \/ Mem_6xkk_LD_Vx_byte
    \/ Mem_Annn_LD_I_addr
    \/ Mem_Fx55_LD_I_Vx

SpecUnknown == InitAlu /\ [][NextUnknown]_vars

\* the step is an iteration of CPU::run whose opcode has no handler
UnknownStep == cpu_at = "fetch" /\ cpu_at' # "fetch" /\ ins'.fn = "none"

\* C26: fetching an opcode that matches no instruction is not fatal: PC has
\* advanced by 2 and nothing else changed (V, I, stack, memory, framebuffer,
\* timers, handshake), active remains true, and the CPU goes on to fetch the
\* next instruction.
C26_UnknownOpcodeSkipped ==
    [][UnknownStep =>
          /\ pc' = (pc + 2) % 4096
          /\ UNCHANGED <<v, index, stack, stack_ptr, heap, framebuffer, delay_timer,
                         sound_timer, key_states, newest_key_state, newest_key>>
          /\ active /\ active'
          /\ cpu_at' = "poll"]_vars

\* 8018 was skipped with registers, I and the heap already written; the CPU
\* is back at the top of its loop with active still true
C26_Witness ==
    /\ ins.fn = "none"
    /\ ins.op = 32792
    /\ ins.v[0] # 0
    /\ ins.index # 0
    /\ ins.heap # NoBytes
    /\ pc = ins.pc + 2
    /\ heap = ins.heap /\ v = ins.v /\ index = ins.index
    /\ active
    /\ cpu_at = "poll"

\* ---------------------------------------------------------------------
\* the control-flow instructions with their history
\* ---------------------------------------------------------------------

\* CPU::run, an iteration that fetches the opcode w and executes its handler
\* fn, one that moves PC or uses the stack, with the instruction history kept
CallTick(fn, w) ==
    /\ cpu_at = "fetch"
    /\ LET f == fetch_instruction(Machine)
           op == from_u8s(w \div 256, w % 256)
       IN /\ f.ok
          /\ get_instruction_function(op) = fn
          /\ LET m == execute_instruction(fn, f.m, op)
             IN /\ Commit(m)
                /\ cpu_at' = IF m.fault = "panic" THEN "panicked" ELSE "poll"
                /\ ins' = InsAfter(fn, op)
                /\ last' = [kind |-> "tick", fetch_pc |-> pc,
                            read |-> f.read, pre_active |-> active,
                            mid_pc |-> f.m.pc, mid_active |-> f.m.active,
                            skip |-> m.skip]
    /\ UNCHANGED <<config, debug_assertions, gpuVars, alu, timerVars, mainVars, syncVars, memVars,
                   stackHist, ticks, keyVars, agentVars>>

CallStep(fn) == \E w \in ProgramWords : CallTick(fn, w)

Call_00EE_RET ==
    /\ cpu_at = "fetch"
    /\ CallStep("i_00EE_RET")

Call_1nnn_JP_addr ==
    /\ cpu_at = "fetch"
    /\ CallStep("i_1nnn_JP_addr")

Call_2nnn_CALL_addr ==
    /\ cpu_at = "fetch"
    /\ CallStep("i_2nnn_CALL_addr")

Call_3xkk_SE_Vx_byte ==
    /\ cpu_at = "fetch"
    /\ CallStep("i_3xkk_SE_Vx_byte")

Call_6xkk_LD_Vx_byte ==
    /\ cpu_at = "fetch"
    /\ CallStep("i_6xkk_LD_Vx_byte")

NextCall ==
    \/ CpuPoll
    \/ CpuFetchFail
    \/ Call_00EE_RET
    \/ Call_1nnn_JP_addr
    \/ Call_2nnn_CALL_addr
    \/ Call_3xkk_SE_Vx_byte
    \/ Call_6xkk_LD_Vx_byte

SpecCall == Init /\ [][NextCall]_vars

\* ---------------------------------------------------------------------
\* fatal violations under the policies that do not allow them
\* ---------------------------------------------------------------------

\* the machine at the start of a program, or after the program that raised I
\* to FarIndex; no overflow is allowed
InitFatal ==
    /\ config = [allow_stack_overflow |-> FALSE, allow_heap_overflow |-> FALSE,
                 allow_program_counter_overflow |-> FALSE,
                 use_new_jump_instruction |-> FALSE]
    /\ debug_assertions \in BOOLEAN
    /\ active = TRUE
    /\ stack = [i \in Slots |-> 0]
    /\ stack_ptr = 0
    /\ call = NoCall
    /\ pushlog = <<>>
    /\ poplog = <<>>
    /\ run_n = 0
    /\ run_sp = 0
    /\ run_active = TRUE
    /\ \E far \in BOOLEAN :
          /\ pc = PROGRAM_START_ADDRESS + (IF far THEN 2 * FarIndexSteps ELSE 0)
          /\ v = [r \in Regs |-> IF far /\ r = 0 THEN 255 ELSE 0]
          /\ index = IF far THEN FarIndex ELSE 0
    /\ cpu_at = "poll"
    /\ ticks = 0
    /\ last = NoLast
    /\ key_states = [k \in Keys |-> FALSE]
    /\ newest_key_state = "Finished"
    /\ newest_key = 0
    /\ fx = 0
    /\ host_keys = {}
    /\ host_at = "idle"
    /\ delay_at = "idle"
    /\ sound_at = "idle"
    /\ render_at = "idle"
    /\ hs = NoHistory
    /\ heap = NoBytes
    /\ mem = NoMem
    /\ quirks = NoQuirks
    /\ gpu_config = DefaultGpuConfig
    /\ framebuffer = {}
    /\ draw = NoDraw
    /\ alu = NoAlu
    /\ delay_timer = 0
    /\ sound_timer = 0
    /\ sink = "paused"
    /\ tm = NoTimerHistory
    /\ main_at = "run_app"
    /\ exit_code = "none"
    /\ startup = StartedUp
    /\ render_queued = FALSE
    /\ present = NoPresent
    /\ limiter = NoLimiter
    /\ locks = NoLocks
    /\ ins = NoIns

NextFatal ==
    \/ CpuPoll
    \/ CpuFetchFail
    \/ Call_00EE_RET
    \/ Call_1nnn_JP_addr
    \/ Call_2nnn_CALL_addr
    \/ Call_3xkk_SE_Vx_byte
    \/ Mem_6xkk_LD_Vx_byte
    \/ Mem_Annn_LD_I_addr
    \/ Mem_Fx1E_ADD_I_Vx
    \/ Mem_Fx33_LD_B_Vx
    \/ Mem_Fx55_LD_I_Vx
    \/ Mem_Fx65_LD_Vx_I

SpecFatal == InitFatal /\ [][NextFatal]_vars

\* the last iteration of the CPU met a PC it may not fetch from
PcOverflowAtFetch ==
    /\ last.kind = "fetch_fail"
    /\ last.fetch_pc >= 4094 /\ ~config.allow_program_counter_overflow

\* the last instruction was a skip that was taken from a PC it may not leave
PcOverflowAtSkip ==
    /\ last.kind = "tick"
    /\ last.skip.called
    /\ last.skip.from >= 4094 /\ ~config.allow_program_counter_overflow

\* the last instruction was Fx1E with a sum that does not fit the register
IndexOverflow ==
    /\ last.kind = "tick"
    /\ ins.fn = "i_Fx1E_ADD_I_Vx"
    /\ ins.index + ins.v[get_x(ins.op)] > 65535
    /\ ~quirks.allow_index_register_overflow

\* the last instruction read or wrote bytes of which one lies past the heap
HeapOverflow ==
    /\ last.kind = "tick"
    /\ \/ ins.fn = "i_Fx33_LD_B_Vx" /\ ins.index + 3 > HEAP_SIZE
       \/ /\ ins.fn \in {"i_Fx55_LD_I_Vx", "i_Fx65_LD_Vx_I"}
          /\ ins.index + get_x(ins.op) + 1 > HEAP_SIZE
    /\ ~config.allow_heap_overflow

\* the last instruction was a CALL on a full stack or a RET on an empty one
StackOverflow ==
    /\ last.kind = "tick"
    /\ \/ ins.fn = "i_2nnn_CALL_addr" /\ ins.stack_ptr = StackSize
       \/ ins.fn = "i_00EE_RET" /\ ins.stack_ptr = 0
    /\ ~config.allow_stack_overflow

FatalViolation ==
    PcOverflowAtFetch \/ PcOverflowAtSkip \/ IndexOverflow \/ HeapOverflow \/ StackOverflow

\* the CPU fetches and executes nothing: it can only leave its loop
CpuOnlyReturns ==
    /\ cpu_at = "poll" /\ cpu_at' = "returned"
    /\ UNCHANGED <<pc, v, index, heap, stack, stack_ptr, active, ticks, ins, last>>

\* C29: after the CPU has detected a fatal violation under a policy that
\* does not allow it (PC overflow at fetch or at a skip, I overflow, heap
\* overflow on a read or a write, stack overflow or underflow) active is
\* false and the CPU fetches and executes no further instruction: its run
\* loop returns at the next poll.
C29_FatalStopsCpu ==
    /\ [](FatalViolation => ~active /\ cpu_at \in {"poll", "returned"})
    /\ [][~active => CpuOnlyReturns]_vars

\* a third CALL met the full stack and the CPU has left its loop
C29_Witness ==
    /\ StackOverflow
    /\ ins.fn = "i_2nnn_CALL_addr"
    /\ ~active
    /\ cpu_at = "returned"

\* ---------------------------------------------------------------------
\* CALL and RET: C30
\* ---------------------------------------------------------------------

\* the step executes the instruction fn
Executes(fn) == cpu_at = "fetch" /\ cpu_at' # "fetch" /\ last'.kind = "tick" /\ ins'.fn = fn

\* the CALL of this step finds the stack full with overflow not allowed
CallRefused == stack_ptr = StackSize /\ ~config.allow_stack_overflow

\* the slot a CALL writes: the next one, or slot 0 when the stack is full
CallSlot == IF stack_ptr = StackSize THEN 0 ELSE stack_ptr

\* a CALL at the address pc pushes ret and sets PC to nnn
CallPushes(ret) ==
    /\ stack' = [stack EXCEPT ![CallSlot] = ret]
    /\ stack_ptr' = CallSlot + 1
    /\ pc' = get_addr(ins'.op)

\* a RET pops the top entry into PC
RetPops ==
    stack_ptr > 0 =>
        /\ pc' = stack[stack_ptr - 1]
        /\ stack_ptr' = stack_ptr - 1

\* a RET resumes after the latest CALL not yet returned from, at after(a)
\* for the address a of that CALL, with the stack pointer as before that CALL
RetResumes(after(_)) ==
    (~ins.wrapped /\ ins.calls # <<>>) =>
        /\ pc' = after(ins.calls[Len(ins.calls)])
        /\ stack_ptr' = Len(ins.calls) - 1
        /\ ins'.calls = SubSeq(ins.calls, 1, Len(ins.calls) - 1)

\* while the stack pointer has not wrapped, the stack holds after(a) for the
\* address a of every CALL not yet returned from, in the order of the calls
StackHoldsCalls(after(_)) ==
    ~ins.wrapped =>
        /\ stack_ptr = Len(ins.calls)
        /\ \A i \in 1..Len(ins.calls) : stack[i - 1] = after(ins.calls[i])

PlusTwo(a) == a + 2
PlusTwoInAddressSpace(a) == (a + 2) % 4096

ComponentOutcomes == {"ok", "bad_config", "non_positive_rate", "bad_ram_config", "no_audio"}

\* the ways RAM::load_program ends
ProgramOutcomes == {"ok", "unreadable", "oversized"}

\* the try_new functions that reject their configuration store false in
\* active before they return None
clears_active(outcome) == outcome \in {"non_positive_rate", "bad_ram_config"}

\* main, lines 44-47: without the components main prints and returns
MainCreateComponents ==
    /\ main_at = "create_components"
    /\ \E o \in ComponentOutcomes :
          /\ startup' = [startup EXCEPT !.components = o]
          /\ active' = IF clears_active(o) THEN FALSE ELSE active
          /\ main_at' = IF o = "ok" THEN "load_program" ELSE "returned"
          /\ exit_code' = IF o = "ok" THEN exit_code ELSE 0
    /\ UNCHANGED <<config, debug_assertions, gpuVars, alu, timerVars, syncVars, ins, memVars,
                   stack, stack_ptr, stackHist, cpuVars, keyVars, agentVars>>

\* main, line 49: load_program clears active when the program cannot be read
\* or does not fit; main does not look at what it returns
MainLoadProgram ==
    /\ main_at = "load_program"
    /\ \E o \in ProgramOutcomes :
          /\ startup' = [startup EXCEPT !.program = o]
          /\ active' = IF o = "ok" THEN active ELSE FALSE
    /\ main_at' = "event_loop_new"
    /\ UNCHANGED <<config, debug_assertions, gpuVars, alu, timerVars, syncVars, ins, memVars,
                   stack, stack_ptr, stackHist, cpuVars, keyVars, agentVars, exit_code>>

\* main, lines 57-63: without an event loop main prints and returns
MainEventLoopNew ==
    /\ main_at = "event_loop_new"
    /\ \E ok \in BOOLEAN :
          /\ startup' = [startup EXCEPT !.event_loop = IF ok THEN "ok" ELSE "new_failed"]
          /\ main_at' = IF ok THEN "spawn" ELSE "returned"
          /\ exit_code' = IF ok THEN exit_code ELSE 0
    /\ UNCHANGED <<config, debug_assertions, gpuVars, alu, timerVars, syncVars, ins, memVars, active,
                   stack, stack_ptr, stackHist, cpuVars, keyVars, agentVars>>

\* main, lines 67-78: the timer threads, the render thread when
\* should_render_separately(), the CPU thread, then the event loop starts
MainSpawn ==
    /\ main_at = "spawn"
    /\ delay_at' = "running"
    /\ sound_at' = "running"
    /\ \E separately \in BOOLEAN :
          render_at' = IF separately THEN "running" ELSE "not_spawned"
    /\ cpu_at' = "poll"
    /\ host_at' = "running"
    /\ main_at' = "run_app"
    /\ UNCHANGED <<config, debug_assertions, gpuVars, alu, timerVars, syncVars, ins, memVars, active,
                   stack, stack_ptr, stackHist, pc, v, ticks, last, keyVars,
                   exit_code, startup>>

\* a store that flips the flag
store_negated(flag) == ~flag

\* comps.active.store(false, Ordering::Release)
store_false(flag) == FALSE

\* main, lines 78-81: run_app fails, main prints and clears active
MainRunAppFails ==
    /\ main_at = "run_app"
    /\ host_at = "running"
    /\ host_at' = "failed"
    /\ active' = store_false(active)
    /\ startup' = [startup EXCEPT !.event_loop = "run_failed"]
    /\ main_at' = "check_active"
    /\ UNCHANGED <<config, debug_assertions, gpuVars, alu, timerVars, syncVars, ins, memVars,
                   stack, stack_ptr, stackHist, cpuVars, keyVars,
                   delay_at, sound_at, render_at, exit_code>>

\* main, line 78: run_app returns Ok once about_to_wait has ended the loop
MainRunAppReturns ==
    /\ main_at = "run_app"
    /\ host_at = "exited"
    /\ main_at' = "check_active"
    /\ UNCHANGED <<config, debug_assertions, gpuVars, alu, timerVars, syncVars, ins, memVars, active,
                   stack, stack_ptr, stackHist, cpuVars, keyVars, agentVars,
                   exit_code, startup>>

\* main, lines 83-85: a debug build panics when active is still true; a
\* panic of the main thread ends the process with status 101
MainCheckActive ==
    /\ main_at = "check_active"
    /\ IF debug_assertions /\ active
       THEN main_at' = "panicked" /\ exit_code' = 101
       ELSE main_at' = "join_delay" /\ exit_code' = exit_code
    /\ UNCHANGED <<config, debug_assertions, gpuVars, alu, timerVars, syncVars, ins, memVars, active,
                   stack, stack_ptr, stackHist, cpuVars, keyVars, agentVars, startup>>

\* main, lines 87-89, one handle: join waits for the thread to end and
\* unwrap panics when the thread has panicked; after the last handle main
\* prints and returns, and a main that returns ends the process with status 0
join(thread_at, next) ==
    /\ thread_at \in {"returned", "panicked"}
    /\ IF thread_at = "panicked"
       THEN main_at' = "panicked" /\ exit_code' = 101
       ELSE /\ main_at' = next
            /\ exit_code' = IF next = "returned" THEN 0 ELSE exit_code
    /\ UNCHANGED <<config, debug_assertions, gpuVars, alu, timerVars, syncVars, ins, memVars, active,
                   stack, stack_ptr, stackHist, cpuVars, keyVars, agentVars, startup>>

MainJoinDelay ==
    /\ main_at = "join_delay"
    /\ join(delay_at, "join_sound")

MainJoinSound ==
    /\ main_at = "join_sound"
    /\ join(sound_at, IF render_at = "not_spawned" THEN "join_cpu" ELSE "join_render")

MainJoinRender ==
    /\ main_at = "join_render"
    /\ join(render_at, "join_cpu")

MainJoinCpu ==
    /\ main_at = "join_cpu"
    /\ join(cpu_at, "returned")

\* main before create_components: no thread is spawned and no event loop runs
InitMain ==
    /\ config = [allow_stack_overflow |-> FALSE, allow_heap_overflow |-> FALSE,
                 allow_program_counter_overflow |-> FALSE,
                 use_new_jump_instruction |-> FALSE]
    /\ debug_assertions \in BOOLEAN
    /\ active = TRUE
    /\ stack = [i \in Slots |-> 0]
    /\ stack_ptr = 0
    /\ call = NoCall
    /\ pushlog = <<>>
    /\ poplog = <<>>
    /\ run_n = 0
    /\ run_sp = 0
    /\ run_active = TRUE
    /\ pc = PROGRAM_START_ADDRESS
    /\ v = [r \in Regs |-> 0]
    /\ cpu_at = "not_spawned"
    /\ ticks = 0
    /\ last = NoLast
    /\ key_states = [k \in Keys |-> FALSE]
    /\ newest_key_state = "Finished"
    /\ newest_key = 0
    /\ fx = 0
    /\ host_keys = {}
    /\ host_at = "not_started"
    /\ delay_at = "not_spawned"
    /\ sound_at = "not_spawned"
    /\ render_at = "not_spawned"
    /\ hs = NoHistory
    /\ heap = NoBytes
    /\ mem = NoMem
    /\ index = 0
    /\ quirks = NoQuirks
    /\ gpu_config = DefaultGpuConfig
    /\ framebuffer = {}
    /\ draw = NoDraw
    /\ alu = NoAlu
    /\ delay_timer = 0
    /\ sound_timer = 0
    /\ sink = "paused"
    /\ tm = NoTimerHistory
    /\ main_at = "create_components"
    /\ exit_code = "none"
    /\ startup = NotStartedUp
    /\ render_queued = FALSE
    /\ present = NoPresent
    /\ limiter = NoLimiter
    /\ locks = NoLocks
    /\ ins = NoIns

NextMain ==
    \/ MainCreateComponents
    \/ MainLoadProgram
    \/ MainEventLoopNew
    \/ MainSpawn
    \/ MainRunAppFails
    \/ MainRunAppReturns
    \/ MainCheckActive
    \/ MainJoinDelay
    \/ MainJoinSound
    \/ MainJoinRender
    \/ MainJoinCpu
    \/ CpuPoll
    \/ Exec_1nnn_JP_addr
    \/ Exec_6xkk_LD_Vx_byte
    \/ CpuFetchFail
    \/ WindowClose
    \/ DelayTimerReturn
    \/ SoundTimerReturn
    \/ SeparateRenderReturn

SpecMain == InitMain /\ [][NextMain]_vars

\* create_components, load_program or the event loop failed
StartupFailed ==
    \/ startup.components \notin {"pending", "ok"}
    \/ startup.program \notin {"pending", "ok"}
    \/ startup.event_loop \notin {"pending", "ok"}

\* the CPU itself cleared active: fetch_instruction met a PC it may not use
RuntimeFatal == last.kind = "fetch_fail" /\ last.pre_active /\ ~last.mid_active

\* the event loop ran and ended on a close request of the host
OrderlyShutdown == host_at = "exited" /\ ~StartupFailed /\ ~RuntimeFatal

\* main has returned or panicked: the process has an exit status
Exited == main_at \in {"returned", "panicked"}

\* C27: the exit status of the process is 0 only after an orderly shutdown
\* on a close request of the host, and it is 1 when startup validation failed
\* (bad configuration, unreadable or oversized program, non-positive rate)
\* or when a runtime fatal error has cleared active.
C27_ExitCode ==
    Exited =>
        /\ exit_code = 0 => OrderlyShutdown
        /\ (StartupFailed \/ RuntimeFatal) => exit_code = 1

\* ---------------------------------------------------------------------
\* the start position of a sprite: C31
\* ---------------------------------------------------------------------

\* C31: the start position of a sprite always wraps: for every Vx, Vy and
\* every configuration DRW draws from x' = Vx mod W, y' = Vy mod H, so a
\* sprite whose Vx >= W or Vy >= H is still drawn, at the wrapped position,
\* and reports a collision when it hits a pixel that was on.
C31_StartPositionWraps ==
    draw.sprite # <<>> =>
        /\ draw.drawn
        /\ framebuffer = XorOfSprite
        /\ draw.collided <=> \E ib \in SpriteBits : ResolvedPixel(ib[1], ib[2]) \in draw.pre

\* ---------------------------------------------------------------------
\* the drawing instructions, the render-queued flag and the presenter
\* ---------------------------------------------------------------------

\* Limiter::reset: the target becomes the present instant
limiter_reset(l) ==
    [l EXCEPT !.target = l.now, !.origin = l.now, !.returns = 0,
              !.first_slept = FALSE, !.overflowed = FALSE]

\* a change of the framebuffer that never queues a render
queue_never(g, rq) == rq

\* if render_occasion == Changes { render_queued.store(true) }, the end of
\* draw_sprite and of clear_framebuffer
queue_on_change(g, rq) == IF g.render_occasion = "Changes" THEN TRUE ELSE rq

\* i_Dxyn_DRW_Vx_Vy_nibble: read: the sprite was read; r: what draw_sprite
\* did; rq: the render-queued flag afterwards; blocked: the flag returned
i_Dxyn_DRW_Vx_Vy_nibble(m, g, fb, rq, op) ==
    LET rd == ram_read(m, m.index, get_n(op))
    IN IF rd.r.result # "ok"
       THEN [m |-> rd.m, read |-> FALSE, sprite |-> <<>>,
             r |-> [collided |-> FALSE, fb |-> fb, drawn |-> FALSE, x |-> 0, y |-> 0],
             rq |-> rq, blocked |-> FALSE]
       ELSE LET r == draw_sprite(g, fb, rd.r.bytes, m.v[get_x(op)], m.v[get_y(op)])
            IN [m |-> [rd.m EXCEPT !.v[15] = IF r.collided THEN 1 ELSE 0],
                read |-> TRUE, sprite |-> rd.r.bytes, r |-> r,
                rq |-> IF r.drawn THEN queue_on_change(g, rq) ELSE rq,
                blocked |-> FALSE]

\* the opcodes of the drawing programs: 60FF, AFFF, D011 D012
DrawWords == {24831, 45055, 53265, 53266}

\* CPU::run, an iteration that fetches the opcode w and executes DRW; the
\* framebuffer's lock is held from the first pixel to the store of the flag
DrawTick(w) ==
    /\ cpu_at = "fetch"
    /\ LET f == fetch_instruction(Machine)
           op == from_u8s(w \div 256, w % 256)
       IN /\ f.ok
          /\ get_instruction_function(op) = "i_Dxyn_DRW_Vx_Vy_nibble"
          /\ LET d == i_Dxyn_DRW_Vx_Vy_nibble(f.m, gpu_config, framebuffer,
                                              render_queued, op)
                 m == d.m
             IN /\ Commit(m)
                /\ index' = m.index
                /\ heap' = m.heap
                /\ mem' = m.mem
                /\ framebuffer' = d.r.fb
                /\ render_queued' = d.rq
                /\ draw' = [n |-> draw.n + 1, sprite |-> d.sprite,
                            x_pos |-> v[get_x(op)], y_pos |-> v[get_y(op)],
                            pre |-> framebuffer, collided |-> d.r.collided,
                            drawn |-> d.r.drawn, queued_before |-> render_queued,
                            blocked |-> d.blocked]
                /\ present' = [present EXCEPT !.changes = IF d.r.drawn THEN @ + 1 ELSE @]
                /\ limiter' = IF d.blocked THEN limiter_reset(limiter) ELSE limiter
                /\ ins' = InsAfter("i_Dxyn_DRW_Vx_Vy_nibble", op)
                /\ cpu_at' = IF m.fault = "panic" THEN "panicked" ELSE "poll"
                /\ last' = [kind |-> "tick", fetch_pc |-> pc,
                            read |-> f.read, pre_active |-> active,
                            mid_pc |-> f.m.pc, mid_active |-> f.m.active,
                            skip |-> m.skip]
    /\ UNCHANGED <<config, debug_assertions, gpu_config, alu, timerVars, mainVars,
                   locks, quirks, stackHist, ticks, keyVars, agentVars>>

Draw_Dxyn_DRW_Vx_Vy_nibble ==
    /\ cpu_at = "fetch"
    /\ \E w \in DrawWords : DrawTick(w)

\* CPU::run, an iteration that fetches 00E0: clear_framebuffer fills the
\* framebuffer and lets go of its lock; the flag is stored afterwards
Draw_6xkk_LD_Vx_byte ==
    /\ cpu_at = "fetch"
    /\ \E w \in DrawWords : MemTick("i_6xkk_LD_Vx_byte", w)

Draw_Annn_LD_I_addr ==
    /\ cpu_at = "fetch"
    /\ \E w \in DrawWords : MemTick("i_Annn_LD_I_addr", w)

Draw_00E0_CLS ==
    /\ cpu_at = "fetch"
    /\ LET f == fetch_instruction(Machine)
           op == from_u8s(0, 224)
           m == f.m
       IN /\ f.ok
          /\ Commit(m)
          /\ framebuffer' = clear_framebuffer(framebuffer)
          /\ ins' = InsAfter("i_00E0_CLS", op)
          /\ cpu_at' = IF gpu_config.render_occasion = "Changes"
                       THEN "cls_queue" ELSE "poll"
          /\ present' = [present EXCEPT !.changes =
                            IF gpu_config.render_occasion = "Changes" THEN @ ELSE @ + 1]
          /\ last' = [kind |-> "tick", fetch_pc |-> pc,
                      read |-> f.read, pre_active |-> active,
                      mid_pc |-> m.pc, mid_active |-> m.active,
                      skip |-> m.skip]
    /\ UNCHANGED <<config, debug_assertions, gpu_config, draw, alu, timerVars,
                   mainVars, render_queued, limiter, locks, memVars, stackHist,
                   ticks, keyVars, agentVars>>

\* clear_framebuffer, its second statement: render_queued.store(true)
ClsQueue ==
    /\ cpu_at = "cls_queue"
    /\ render_queued' = queue_on_change(gpu_config, render_queued)
    /\ present' = [present EXCEPT !.changes = @ + 1]
    /\ cpu_at' = "poll"
    /\ UNCHANGED <<config, debug_assertions, gpuVars, alu, timerVars, mainVars,
                   limiter, locks, ins, memVars, active, stack, stack_ptr,
                   stackHist, pc, v, ticks, last, keyVars, agentVars>>

\* GPU::run_separate_render, an iteration: render_queued.store(true)
SeparateRenderTick ==
    /\ render_at = "running"
    /\ active
    /\ ~render_queued
    /\ render_queued' = TRUE
    /\ UNCHANGED <<config, debug_assertions, gpuVars, alu, timerVars, mainVars,
                   present, limiter, locks, ins, memVars, active, stack,
                   stack_ptr, stackHist, cpuVars, keyVars, agentVars>>

\* WindowManager::about_to_wait past update_input: gpu.is_render_queued()
\* was true
HostLoadQueued ==
    /\ host_at = "running"
    /\ active
    /\ present.at \in {"idle", "redraw"}
    /\ render_queued
    /\ present' = [present EXCEPT !.at = "dequeue"]
    /\ UNCHANGED <<config, debug_assertions, gpuVars, alu, timerVars, mainVars,
                   render_queued, limiter, locks, ins, memVars, active, stack,
                   stack_ptr, stackHist, cpuVars, keyVars, agentVars>>

\* about_to_wait with the window created, after the flag was read as true:
\* gpu.dequeue_render() and window.request_redraw()
HostDequeue ==
    /\ host_at = "running"
    /\ present.at = "dequeue"
    /\ render_queued' = FALSE
    /\ present' = [present EXCEPT !.at = "redraw"]
    /\ UNCHANGED <<config, debug_assertions, gpuVars, alu, timerVars, mainVars,
                   limiter, locks, ins, memVars, active, stack, stack_ptr,
                   stackHist, cpuVars, keyVars, agentVars>>

\* WindowManager::window_event with RedrawRequested: render reads the
\* framebuffer under its lock and presents it
HostRender ==
    /\ host_at = "running"
    /\ present.at = "redraw"
    /\ present' = [present EXCEPT !.at = "idle", !.seen = present.changes]
    /\ UNCHANGED <<config, debug_assertions, gpuVars, alu, timerVars, mainVars,
                   render_queued, limiter, locks, ins, memVars, active, stack,
                   stack_ptr, stackHist, cpuVars, keyVars, agentVars>>

\* the machine after the program is loaded, all threads started; the font
\* data of the configuration starts with the rows FF 81
InitDraw ==
    /\ config = [allow_stack_overflow |-> FALSE, allow_heap_overflow |-> FALSE,
                 allow_program_counter_overflow |-> FALSE,
                 use_new_jump_instruction |-> FALSE]
    /\ debug_assertions = FALSE
    /\ active = TRUE
    /\ stack = [i \in Slots |-> 0]
    /\ stack_ptr = 0
    /\ call = NoCall
    /\ pushlog = <<>>
    /\ poplog = <<>>
    /\ run_n = 0
    /\ run_sp = 0
    /\ run_active = TRUE
    /\ pc = PROGRAM_START_ADDRESS
    /\ v = [r \in Regs |-> 0]
    /\ cpu_at = "poll"
    /\ ticks = 0
    /\ last = NoLast
    /\ key_states = [k \in Keys |-> FALSE]
    /\ newest_key_state = "Finished"
    /\ newest_key = 0
    /\ fx = 0
    /\ host_keys = {}
    /\ host_at = "running"
    /\ delay_at = "idle"
    /\ sound_at = "idle"
    /\ hs = NoHistory
    /\ heap = copy_from_slice(NoBytes, 0, <<255, 129>>)
    /\ mem = NoMem
    /\ index = 0
    /\ quirks \in {q \in Quirks : /\ ~q.allow_index_register_overflow
                                /\ ~q.set_flag_for_index_overflow
                                /\ ~q.move_index_with_reads
                                /\ ~q.use_new_shift_instruction
                                /\ ~q.reset_flag_for_bitwise_operations}
    /\ gpu_config \in {g \in GpuConfigs : /\ g.horizontal_resolution = 64
                                          /\ ~g.wrap_sprite_positions
                                          /\ ~g.wrap_sprite_pixels}
    /\ render_at = IF gpu_config.render_occasion = "Frequency" THEN "running" ELSE "idle"
    /\ framebuffer = {}
    /\ draw = NoDraw
    /\ alu = NoAlu
    /\ delay_timer = 0
    /\ sound_timer = 0
    /\ sink = "paused"
    /\ tm = NoTimerHistory
    /\ main_at = "run_app"
    /\ exit_code = "none"
    /\ startup = StartedUp
    /\ render_queued = FALSE
    /\ present = NoPresent
    /\ limiter = NoLimiter
    /\ locks = NoLocks
    /\ ins = NoIns

NextDraw ==
    \/ CpuPoll
    \/ Draw_6xkk_LD_Vx_byte
    \/ Draw_Annn_LD_I_addr
    \/ Draw_Dxyn_DRW_Vx_Vy_nibble
    \/ Draw_00E0_CLS
    \/ ClsQueue
    \/ SeparateRenderTick
    \/ HostLoadQueued
    \/ HostDequeue
    \/ HostRender
    \/ WindowClose

SpecDraw == InitDraw /\ [][NextDraw]_vars

\* the event loop keeps calling about_to_wait and delivers the redraw it was
\* asked for
FairSpecDraw ==
    /\ SpecDraw
    /\ WF_vars(HostLoadQueued) /\ WF_vars(HostDequeue) /\ WF_vars(HostRender)
    /\ WF_vars(ClsQueue)

\* C32: with limit_to_one_draw_per_frame on, a DRW executed while the
\* render-queued flag is already set reports blocked = true to the pacing
\* loop; in every other case it reports blocked = false.
C32_SecondDrawBlocked ==
    ins.fn = "i_Dxyn_DRW_Vx_Vy_nibble" =>
        (draw.blocked <=> (quirks.limit_to_one_draw_per_frame /\ draw.queued_before))

\* an unseen change has its render queued or its redraw requested
RenderPending ==
    present.seen < present.changes => (render_queued \/ present.at \in {"dequeue", "redraw"})

\* C38: with render_occasion = Changes and while active stays true, no
\* framebuffer change is lost: every completed change (the framebuffer
\* modified, then render-queued set) is followed by a presentation of the
\* host that reads the framebuffer at or after that change.
C38_NoLostFrame ==
    \A k \in 1..MaxTicks :
        (gpu_config.render_occasion = "Changes" /\ present.changes >= k)
            ~> (present.seen >= k \/ ~active)

C38_Witness ==
    /\ gpu_config.render_occasion = "Changes"
    /\ active
    /\ present.changes = 2
    /\ present.seen = 2
    /\ ins.fn = "i_00E0_CLS"
    /\ ins.before.fn = "i_Dxyn_DRW_Vx_Vy_nibble"

\* ---------------------------------------------------------------------
\* the limiter of the CPU's run loop
\* ---------------------------------------------------------------------

\* the instants are counted in units of a clock tick; MaxInstant is the last
\* instant an Instant can hold, MaxNow the last instant the clock reaches
MaxInstant == 8
MaxNow == 6
MaxReturns == 4
\* 1 / freq, in clock ticks
Delays == {2, 5}

\* Instant::checked_add: ok = FALSE stands for None
checked_add(t, d) ==
    IF t + d > MaxInstant THEN [ok |-> FALSE, t |-> t] ELSE [ok |-> TRUE, t |-> t + d]

\* the deadline is not moved: target = Instant::now() whatever catch_up says
advance_to_now(target, delay, now) == now

\* the match on catch_up in wait_if_early, catch_up being true: the new target
advance(target, delay, now) ==
    LET sum == checked_add(target, delay)
    IN IF sum.ok THEN sum.t ELSE now

\* Limiter::wait_if_early with catch_up; woke is the instant at which the
\* call goes on after its sleep, or the instant of the call if it did not
\* sleep
wait_if_early(l, woke) ==
    LET slept == l.now < l.target
    IN [l EXCEPT !.now = woke,
                 !.target = advance(l.target, l.delay, woke),
                 !.at = "execute",
                 !.returns = @ + 1,
                 !.returned_at = woke,
                 !.first_slept = IF l.returns = 0 THEN slept ELSE @,
                 !.overflowed = @ \/ ~checked_add(l.target, l.delay).ok]

limiterOthers ==
    <<config, debug_assertions, gpuVars, alu, timerVars, mainVars, render_queued,
      present, locks, ins, memVars, active, stack, stack_ptr, stackHist, cpuVars,
      keyVars, agentVars>>

\* time passes while the CPU thread executes or is blocked in an instruction
LimiterElapse ==
    /\ limiter.now < MaxNow
    /\ limiter' = [limiter EXCEPT !.now = @ + 1]
    /\ UNCHANGED limiterOthers

\* CPU::run: limiter.wait_if_early(); thread::sleep returns at the deadline
\* or later
LimiterWait ==
    /\ limiter.at = "wait"
    /\ limiter.returns < MaxReturns
    /\ \E woke \in limiter.now..MaxNow :
           /\ IF limiter.now < limiter.target
              THEN woke \in {limiter.target, limiter.target + 1}
              ELSE woke = limiter.now
           /\ limiter' = wait_if_early(limiter, woke)
    /\ UNCHANGED limiterOthers

\* CPU::run: execute_instruction returned false
LimiterNoReset ==
    /\ limiter.at = "execute"
    /\ limiter' = [limiter EXCEPT !.at = "wait"]
    /\ UNCHANGED limiterOthers

\* CPU::run: execute_instruction returned true, limiter.reset()
LimiterReset ==
    /\ limiter.at = "execute"
    /\ limiter' = [limiter_reset(limiter) EXCEPT !.at = "wait"]
    /\ UNCHANGED limiterOthers

\* CPU::run before its loop: Limiter::new(instructions_per_second, true)
InitLimiter ==
    /\ config = [allow_stack_overflow |-> FALSE, allow_heap_overflow |-> FALSE,
                 allow_program_counter_overflow |-> FALSE,
                 use_new_jump_instruction |-> FALSE]
    /\ debug_assertions = FALSE
    /\ active = TRUE
    /\ stack = [i \in Slots |-> 0]
    /\ stack_ptr = 0
    /\ call = NoCall
    /\ pushlog = <<>>
    /\ poplog = <<>>
    /\ run_n = 0
    /\ run_sp = 0
    /\ run_active = TRUE
    /\ pc = PROGRAM_START_ADDRESS
    /\ v = [r \in Regs |-> 0]
    /\ cpu_at = "poll"
    /\ ticks = 0
    /\ last = NoLast
    /\ key_states = [k \in Keys |-> FALSE]
    /\ newest_key_state = "Finished"
    /\ newest_key = 0
    /\ fx = 0
    /\ host_keys = {}
    /\ host_at = "running"
    /\ delay_at = "idle"
    /\ sound_at = "idle"
    /\ hs = NoHistory
    /\ heap = NoBytes
    /\ mem = NoMem
    /\ index = 0
    /\ quirks = NoQuirks
    /\ gpu_config = DefaultGpuConfig
    /\ render_at = "idle"
    /\ framebuffer = {}
    /\ draw = NoDraw
    /\ alu = NoAlu
    /\ delay_timer = 0
    /\ sound_timer = 0
    /\ sink = "paused"
    /\ tm = NoTimerHistory
    /\ main_at = "run_app"
    /\ exit_code = "none"
    /\ startup = StartedUp
    /\ render_queued = FALSE
    /\ present = NoPresent
    /\ limiter \in {[NoLimiter EXCEPT !.delay = d] : d \in Delays}
    /\ locks = NoLocks
    /\ ins = NoIns


NextLimiter ==
    \/ LimiterElapse
    \/ LimiterWait
    \/ LimiterNoReset
    \/ LimiterReset

SpecLimiter == InitLimiter /\ [][NextLimiter]_vars

\* the k-th return is no earlier than k - 1 periods after the creation or the
\* last reset, and the first call does not sleep
PacedFromOrigin ==
    /\ limiter.returns >= 1 =>
           limiter.returned_at >= limiter.origin + (limiter.returns - 1) * limiter.delay
    /\ ~limiter.first_slept

\* C34: in catch-up mode the k-th return of wait_if_early, counted from the
\* limiter's creation or from its last reset(), happens no earlier than k - 1
\* periods after that instant; after a reset() the first call returns without
\* sleeping and no burst of catch-up ticks follows.
C34_CatchUpPacing == PacedFromOrigin

\* C34 as far as every deadline target + period was an instant an Instant
\* can hold
C34_CatchUpPacingRepresentable == ~limiter.overflowed => PacedFromOrigin

\* after a reset at instant 2 that followed two instants of blocking, the
\* third return comes at instant 6
C34_Witness ==
    /\ limiter.delay = 2
    /\ limiter.origin = 2
    /\ limiter.returns = 3
    /\ limiter.returned_at = 6
    /\ ~limiter.overflowed

\* ---------------------------------------------------------------------
\* the mutexes: which thread takes which, and in what order
\* ---------------------------------------------------------------------

Mutexes == {"pc", "index", "v", "heap", "stack_ptr", "stack", "framebuffer",
            "key_states", "newest_key_state"}

\* lock() of the mutex l, and the drop of its guard
Acq(l) == <<"lock", l>>
Rel(l) == <<"drop", l>>
\* a call that locks l and drops the guard before it returns
Use(l) == <<Acq(l), Rel(l)>>

\* CPU::fetch_instruction: pc is held while ram.read_bytes locks the heap
fetch_locks == <<Acq("pc")>> \o Use("heap") \o <<Rel("pc")>>

\* RAM::push_to_stack, RAM::pop_from_stack
stack_locks == <<Acq("stack_ptr"), Acq("stack"), Rel("stack"), Rel("stack_ptr")>>

\* InputManager::get_next_key_press: each wait_timeout drops the guard and
\* locks again before it returns
get_next_key_press_locks ==
    <<Acq("newest_key_state")>>
    \o <<Rel("newest_key_state"), Acq("newest_key_state")>>
    \o <<Rel("newest_key_state"), Acq("newest_key_state")>>
    \o <<Rel("newest_key_state")>>

\* the handlers with Fx65 setting the registers while the heap is still held
handler_locks_v_inside_heap(fn) ==
    CASE fn = "i_Fx65_LD_Vx_I" ->
             <<Acq("index"), Acq("heap")>> \o Use("v") \o <<Rel("heap"), Rel("index")>>
      [] OTHER -> Use("v")

\* the handlers with 9xy0 reading the registers through get_v_reg while it
\* holds their guard
handler_locks_relocking(fn) ==
    CASE fn = "i_9xy0_SNE_Vx_Vy" ->
             <<Acq("v")>> \o Use("v") \o Use("pc") \o <<Rel("v")>>
      [] OTHER -> Use("v")

\* the mutexes each handler of instructions.rs locks and the places where
\* their guards are dropped
handler_locks(fn) ==
    CASE fn = "i_00E0_CLS" -> Use("framebuffer")
      [] fn = "i_00EE_RET" -> stack_locks \o Use("pc")
      [] fn = "i_1nnn_JP_addr" -> Use("pc")
      [] fn = "i_2nnn_CALL_addr" -> <<Acq("pc")>> \o stack_locks \o <<Rel("pc")>>
      [] fn \in {"i_3xkk_SE_Vx_byte", "i_4xkk_SNE_Vx_byte", "i_5xy0_SE_Vx_Vy",
                 "i_Bnnn_JP_V0_addr"} -> Use("v") \o Use("pc")
      [] fn = "i_9xy0_SNE_Vx_Vy" -> <<Acq("v")>> \o Use("pc") \o <<Rel("v")>>
      [] fn = "i_Annn_LD_I_addr" -> Use("index")
      [] fn = "i_Dxyn_DRW_Vx_Vy_nibble" ->
             Use("index") \o Use("heap")
             \o <<Acq("v")>> \o Use("framebuffer") \o <<Rel("v")>>
      [] fn \in {"i_Ex9E_SKP_Vx", "i_ExA1_SKNP_Vx"} ->
             Use("v") \o Use("key_states") \o Use("pc")
      [] fn = "i_Fx0A_LD_Vx_K" -> get_next_key_press_locks \o Use("v")
      [] fn = "i_Fx1E_ADD_I_Vx" -> <<Acq("v")>> \o Use("index") \o <<Rel("v")>>
      [] fn = "i_Fx29_LD_F_Vx" -> Use("v") \o Use("index")
      [] fn = "i_Fx33_LD_B_Vx" -> Use("v") \o Use("index") \o Use("heap")
      [] fn = "i_Fx55_LD_I_Vx" ->
             <<Acq("index")>> \o Use("v") \o Use("heap") \o <<Rel("index")>>
      [] fn = "i_Fx65_LD_Vx_I" ->
             <<Acq("index")>> \o Use("heap") \o Use("v") \o <<Rel("index")>>
      [] OTHER -> Use("v")

\* InputManager::update_input and WindowManager::render, the two operations
\* of the event loop's thread that lock
host_locks(fn) ==
    CASE fn = "update_input" ->
             <<Acq("key_states"), Acq("newest_key_state"),
               Rel("newest_key_state"), Rel("key_states")>>
      [] fn = "render" -> Use("framebuffer")

Handlers ==
    {"i_00E0_CLS", "i_00EE_RET", "i_1nnn_JP_addr", "i_2nnn_CALL_addr",
     "i_3xkk_SE_Vx_byte", "i_4xkk_SNE_Vx_byte", "i_5xy0_SE_Vx_Vy",
     "i_6xkk_LD_Vx_byte", "i_7xkk_ADD_Vx_byte", "i_8xy0_LD_Vx_Vy",
     "i_8xy1_OR_Vx_Vy", "i_8xy2_AND_Vx_Vy", "i_8xy3_XOR_Vx_Vy",
     "i_8xy4_ADD_Vx_Vy", "i_8xy5_SUB_Vx_Vy", "i_8xy6_SHR_Vx",
     "i_8xy7_SUBN_Vx_Vy", "i_8xyE_SHL_Vx", "i_9xy0_SNE_Vx_Vy",
     "i_Annn_LD_I_addr", "i_Bnnn_JP_V0_addr", "i_Cxkk_RND_Vx_byte",
     "i_Dxyn_DRW_Vx_Vy_nibble", "i_Ex9E_SKP_Vx", "i_ExA1_SKNP_Vx",
     "i_Fx07_LD_Vx_DT", "i_Fx0A_LD_Vx_K", "i_Fx15_LD_DT_Vx", "i_Fx18_LD_ST_Vx",
     "i_Fx1E_ADD_I_Vx", "i_Fx29_LD_F_Vx", "i_Fx33_LD_B_Vx", "i_Fx55_LD_I_Vx",
     "i_Fx65_LD_Vx_I"}

Threads == {"cpu", "host"}
HeldBy(t) == {locks[t].held[j] : j \in 1..Len(locks[t].held)}
\* the mutex the thread t asks for next, "none" if its next step is no lock()
Wants(t) ==
    IF locks[t].todo # <<>> /\ Head(locks[t].todo)[1] = "lock"
    THEN Head(locks[t].todo)[2] ELSE "none"

lockOthers ==
    <<config, debug_assertions, gpuVars, alu, timerVars, mainVars, render_queued,
      present, limiter, ins, memVars, active, stack, stack_ptr, stackHist, cpuVars,
      keyVars, agentVars>>

\* Mutex::lock returns: no thread holds the mutex
LockStep(t) ==
    /\ Wants(t) # "none"
    /\ \A u \in Threads : Wants(t) \notin HeldBy(u)
    /\ locks' = [locks EXCEPT ![t].held = Append(@, Wants(t)), ![t].todo = Tail(@)]
    /\ UNCHANGED lockOthers

\* a guard goes out of scope
DropStep(t) ==
    /\ locks[t].todo # <<>>
    /\ Head(locks[t].todo)[1] = "drop"
    /\ locks' = [locks EXCEPT
                    ![t].held = SelectSeq(@, LAMBDA l : l # Head(locks[t].todo)[2]),
                    ![t].todo = Tail(@)]
    /\ UNCHANGED lockOthers

\* CPU::run, an iteration starts: fetch_instruction, then the handler fn
CpuBegins ==
    /\ locks.cpu.todo = <<>>
    /\ \E fn \in Handlers :
           locks' = [locks EXCEPT !.cpu = [fn |-> fn, held |-> <<>>,
                                           todo |-> fetch_locks \o handler_locks(fn)]]
    /\ UNCHANGED lockOthers

CpuLocks == LockStep("cpu")

CpuDrops == DropStep("cpu")

\* the event loop calls update_input (about_to_wait) or render (window_event)
HostBegins ==
    /\ locks.host.todo = <<>>
    /\ \E fn \in {"update_input", "render"} :
           locks' = [locks EXCEPT !.host = [fn |-> fn, held |-> <<>>,
                                            todo |-> host_locks(fn)]]
    /\ UNCHANGED lockOthers

HostLocks == LockStep("host")

HostDrops == DropStep("host")

\* all threads started, none of them in an operation
InitLock ==
    /\ config = [allow_stack_overflow |-> FALSE, allow_heap_overflow |-> FALSE,
                 allow_program_counter_overflow |-> FALSE,
                 use_new_jump_instruction |-> FALSE]
    /\ debug_assertions = FALSE
    /\ active = TRUE
    /\ stack = [i \in Slots |-> 0]
    /\ stack_ptr = 0
    /\ call = NoCall
    /\ pushlog = <<>>
    /\ poplog = <<>>
    /\ run_n = 0
    /\ run_sp = 0
    /\ run_active = TRUE
    /\ pc = PROGRAM_START_ADDRESS
    /\ v = [r \in Regs |-> 0]
    /\ cpu_at = "poll"
    /\ ticks = 0
    /\ last = NoLast
    /\ key_states = [k \in Keys |-> FALSE]
    /\ newest_key_state = "Finished"
    /\ newest_key = 0
    /\ fx = 0
    /\ host_keys = {}
    /\ host_at = "running"
    /\ delay_at = "idle"
    /\ sound_at = "idle"
    /\ hs = NoHistory
    /\ heap = NoBytes
    /\ mem = NoMem
    /\ index = 0
    /\ quirks = NoQuirks
    /\ gpu_config = DefaultGpuConfig
    /\ render_at = "idle"
    /\ framebuffer = {}
    /\ draw = NoDraw
    /\ alu = NoAlu
    /\ delay_timer = 0
    /\ sound_timer = 0
    /\ sink = "paused"
    /\ tm = NoTimerHistory
    /\ main_at = "run_app"
    /\ exit_code = "none"
    /\ startup = StartedUp
    /\ render_queued = FALSE
    /\ present = NoPresent
    /\ limiter = NoLimiter
    /\ locks = NoLocks
    /\ ins = NoIns



NextLock ==
    \/ CpuBegins
    \/ CpuLocks
    \/ CpuDrops
    \/ HostBegins
    \/ HostLocks
    \/ HostDrops

SpecLock == InitLock /\ [][NextLock]_vars

StackMutexes == {"stack_ptr", "stack"}
\* V before the heap before the stack
Rank(l) == CASE l = "v" -> 1 [] l = "heap" -> 2 [] l \in StackMutexes -> 3 [] OTHER -> 0

\* C35: whenever a thread holds more than one of the V, heap and stack locks
\* they were taken in the order V, heap, stack: no thread asks for V while it
\* holds the heap or a stack lock, nor for the heap while it holds a stack
\* lock.
C35_LockOrder ==
    \A t \in Threads :
        /\ Wants(t) = "v" => HeldBy(t) \cap ({"heap"} \cup StackMutexes) = {}
        /\ Wants(t) = "heap" => HeldBy(t) \cap StackMutexes = {}
        /\ \A i, j \in 1..Len(locks[t].held) :
               (i < j /\ Rank(locks[t].held[i]) > 0 /\ Rank(locks[t].held[j]) > 0)
                   => Rank(locks[t].held[i]) <= Rank(locks[t].held[j])

\* Fx65 asks for V after read_bytes has let go of the heap
C35_Witness ==
    /\ locks.cpu.fn = "i_Fx65_LD_Vx_I"
    /\ Wants("cpu") = "v"
    /\ locks.cpu.held = <<"index">>

\* C36: no thread is blocked forever on a mutex: no handler locks a mutex
\* its own thread still holds, and there is no cyclic wait between the CPU
\* thread, the input mirror and the presenter.
C36_NoDeadlock ==
    /\ \A t \in Threads : Wants(t) \notin HeldBy(t)
    /\ ~(Wants("cpu") \in HeldBy("host") /\ Wants("host") \in HeldBy("cpu"))

\* DRW holds V and waits for the framebuffer the presenter is reading
C36_Witness ==
    /\ locks.cpu.fn = "i_Dxyn_DRW_Vx_Vy_nibble"
    /\ locks.cpu.held = <<"v">>
    /\ Wants("cpu") = "framebuffer"
    /\ locks.host.held = <<"framebuffer">>

\* ---------------------------------------------------------------------
\* set_value while a timer ticks
\* ---------------------------------------------------------------------

\* a store of the new value whatever the register holds
compare_exchange_blind(current, expected, new) == [ok |-> TRUE, value |-> new]

\* AtomicU8::compare_exchange_weak inside fetch_update: the new value is
\* stored only if the register still holds the value that was loaded
compare_exchange(current, expected, new) ==
    IF current = expected
    THEN [ok |-> TRUE, value |-> new]
    ELSE [ok |-> FALSE, value |-> current]

\* AtomicU8::fetch_update after its load of the value loaded: the closure
\* returns None for 0 and the call ends; otherwise it tries to store
\* loaded - 1 and, if the register has changed, starts over with the value
\* found.  done: the call has ended
fetch_update(current, loaded) ==
    IF timer_tick(loaded) = loaded
    THEN [done |-> TRUE, value |-> current, loaded |-> loaded]
    ELSE LET r == compare_exchange(current, loaded, timer_tick(loaded))
         IN [done |-> r.ok, value |-> r.value, loaded |-> current]

\* DelayTimer::run, an iteration: fetch_update loads the register
DelayTimerLoad ==
    /\ delay_at = "running"
    /\ active
    /\ tm.delay_ticks < MaxTimerTicks
    /\ tm' = [tm EXCEPT !.delay_loaded = delay_timer]
    /\ delay_at' = "loaded"
    /\ UNCHANGED <<config, debug_assertions, gpuVars, alu, delay_timer, sound_timer,
                   sink, mainVars, syncVars, ins, memVars, active, stack, stack_ptr,
                   stackHist, cpuVars, keyVars, host_at, sound_at, render_at>>

\* DelayTimer::run: fetch_update ends or starts over
DelayTimerUpdate ==
    /\ delay_at = "loaded"
    /\ LET r == fetch_update(delay_timer, tm.delay_loaded)
       IN /\ delay_timer' = r.value
          /\ tm' = [tm EXCEPT !.delay_loaded = r.loaded,
                              !.delay_ticks = IF r.done THEN @ + 1 ELSE @,
                              !.delay_raced = @ \/ ~r.done]
          /\ delay_at' = IF r.done THEN "running" ELSE "loaded"
    /\ UNCHANGED <<config, debug_assertions, gpuVars, alu, sound_timer,
                   sink, mainVars, syncVars, ins, memVars, active, stack, stack_ptr,
                   stackHist, cpuVars, keyVars, host_at, sound_at, render_at>>

\* SoundTimer::run, an iteration: fetch_update loads the register
SoundTimerLoad ==
    /\ sound_at = "running"
    /\ active
    /\ tm.sound_ticks < MaxTimerTicks
    /\ tm' = [tm EXCEPT !.sound_loaded = sound_timer]
    /\ sound_at' = "loaded"
    /\ UNCHANGED <<config, debug_assertions, gpuVars, alu, delay_timer, sound_timer,
                   sink, mainVars, syncVars, ins, memVars, active, stack, stack_ptr,
                   stackHist, cpuVars, keyVars, host_at, delay_at, render_at>>

\* SoundTimer::run: fetch_update ends or starts over
SoundTimerUpdate ==
    /\ sound_at = "loaded"
    /\ LET r == fetch_update(sound_timer, tm.sound_loaded)
       IN /\ sound_timer' = r.value
          /\ tm' = [tm EXCEPT !.sound_loaded = r.loaded,
                              !.sound_ticks = IF r.done THEN @ + 1 ELSE @,
                              !.sound_raced = @ \/ ~r.done]
          /\ sound_at' = IF r.done THEN "ticked" ELSE "loaded"
    /\ UNCHANGED <<config, debug_assertions, gpuVars, alu, delay_timer,
                   sink, mainVars, syncVars, ins, memVars, active, stack, stack_ptr,
                   stackHist, cpuVars, keyVars, host_at, delay_at, render_at>>

\* main after the threads are spawned and the event loop runs
InitRace ==
    /\ config = [allow_stack_overflow |-> FALSE, allow_heap_overflow |-> FALSE,
                 allow_program_counter_overflow |-> FALSE,
                 use_new_jump_instruction |-> FALSE]
    /\ debug_assertions = FALSE
    /\ active = TRUE
    /\ stack = [i \in Slots |-> 0]
    /\ stack_ptr = 0
    /\ call = NoCall
    /\ pushlog = <<>>
    /\ poplog = <<>>
    /\ run_n = 0
    /\ run_sp = 0
    /\ run_active = TRUE
    /\ pc = PROGRAM_START_ADDRESS
    /\ v = [r \in Regs |-> 0]
    /\ cpu_at = "poll"
    /\ ticks = 0
    /\ last = NoLast
    /\ key_states = [k \in Keys |-> FALSE]
    /\ newest_key_state = "Finished"
    /\ newest_key = 0
    /\ fx = 0
    /\ host_keys = {}
    /\ host_at = "running"
    /\ delay_at = "running"
    /\ sound_at = "running"
    /\ render_at = "not_spawned"
    /\ hs = NoHistory
    /\ heap = NoBytes
    /\ mem = NoMem
    /\ index = 0
    /\ quirks = NoQuirks
    /\ gpu_config = DefaultGpuConfig
    /\ framebuffer = {}
    /\ draw = NoDraw
    /\ alu = NoAlu
    /\ delay_timer = 0
    /\ sound_timer = 0
    /\ sink = "paused"
    /\ tm = NoTimerHistory
    /\ main_at = "run_app"
    /\ exit_code = "none"
    /\ startup = StartedUp
    /\ render_queued = FALSE
    /\ present = NoPresent
    /\ limiter = NoLimiter
    /\ locks = NoLocks
    /\ ins = NoIns


NextRace ==
    \/ CpuPoll
    \/ Timer_6xkk_LD_Vx_byte
    \/ Timer_Fx15_LD_DT_Vx
    \/ Timer_Fx18_LD_ST_Vx
    \/ DelayTimerLoad
    \/ DelayTimerUpdate
    \/ SoundTimerLoad
    \/ SoundTimerUpdate
    \/ SoundTimerSink

SpecRace == InitRace /\ [][NextRace]_vars

\* C37: when set_value(v) of Fx15 or Fx18 races with a tick of that timer the
\* register afterwards holds v or v - 1 (floor 0): a decrement computed from
\* the value read before the store never overwrites the stored v, in every
\* interleaving of the store with the timer's read-modify-write.
C37_StoreSurvivesTick ==
    /\ tm.delay_ticks = 0 => delay_timer = tm.delay_set
    /\ tm.delay_ticks = 1 => delay_timer \in {tm.delay_set, timer_tick(tm.delay_set)}
    /\ tm.sound_ticks = 0 => sound_timer = tm.sound_set
    /\ tm.sound_ticks = 1 => sound_timer \in {tm.sound_set, timer_tick(tm.sound_set)}

\* Fx15 has stored 3 after the tick had loaded the register, which an
\* earlier Fx15 had set; the tick found the register changed, started over
\* and has left 2
C37_Witness ==
    /\ tm.delay_set = 3
    /\ tm.delay_raced
    /\ tm.delay_ticks = 1
    /\ delay_timer = 2
    /\ delay_at = "running"

\* ---------------------------------------------------------------------
\* what an instruction that fails leaves behind: C39
\* ---------------------------------------------------------------------

\* the opcode was fetched with active set and its handler has cleared active
InstructionFailed == last.kind = "tick" /\ last.mid_active /\ ~active

\* C39: an instruction that hits a fatal violation has no effect other than
\* clearing active: 2nnn on a full stack leaves PC at the instruction after
\* the CALL, and Fx33, Fx55 and Fx65 that reach past 0xFFF leave the heap, I
\* and the registers unchanged.
C39_FailedInstructionHasNoEffect ==
    InstructionFailed =>
        /\ pc = last.mid_pc
        /\ v = ins.v
        /\ index = ins.index
        /\ heap = ins.heap
        /\ stack = ins.stack
        /\ stack_ptr = ins.stack_ptr

\* ---------------------------------------------------------------------
\* the shutdown flag: C40
\* ---------------------------------------------------------------------

\* C40: the shutdown flag is monotonic: active is true initially and, once
\* any agent has stored false, no operation stores true again, so active
\* stays false in every later state.
C40_ActiveMonotonic ==
    /\ main_at = "create_components" => active
    /\ [][~active => ~active']_vars

\* the CPU has cleared active at a failed fetch, the event loop has ended on
\* it and main has joined every thread
C40_Witness ==
    /\ ~active
    /\ last.kind = "fetch_fail"
    /\ host_at = "exited"
    /\ main_at = "returned"

====
